---- MODULE Spec2Model ----
(***************************************************************************)
(* Model of the Bible search engine (lib/bible/index.ts): text             *)
(* normalisation, hashed bag-of-words vectors, the top-k ranker, the       *)
(* memoised corpus load, the per-translation document cache and the        *)
(* searchBible entry point; and of the translation sync of the ingest      *)
(* script (scripts/ingest-bible.ts): the per-translation sync step, the    *)
(* two manifests and the remote object store; and of the web endpoint      *)
(* (app/api/search/route.ts): the key check, the parameter checks and the  *)
(* call of searchBible.                                                    *)
(*                                                                         *)
(* Strings the code inspects character by character (search terms,        *)
(* translation codes) are sequences of one-character strings.  Float32     *)
(* values are fixed-point numbers with Scale units per 1.0, extended with  *)
(* the IEEE specials NaN, +Infinity and -Infinity.                         *)
(***************************************************************************)
EXTENDS Integers, Sequences, FiniteSets, TLC

\* ------------------------------------------------------------------ bounds

\* Largest corpus handed to the ranker on its own.
MaxVerses == 3

\* Fixed-point units per 1.0 in the model of Float32 values.
Scale == 100

\* ------------------------------------------------------- program constants

DEFAULT_TRANSLATION == <<"N", "L", "T">>
DEFAULT_LIMIT == 5
MAX_LIMIT == 50

\* ------------------------------------------------------------ characters

LowerOf(c) ==
  CASE c = "A" -> "a" [] c = "B" -> "b" [] c = "E" -> "e" [] c = "J" -> "j"
    [] c = "K" -> "k"
    [] c = "L" -> "l" [] c = "N" -> "n" [] c = "S" -> "s" [] c = "T" -> "t"
    [] c = "V" -> "v" [] OTHER -> c

UpperOf(c) ==
  CASE c = "a" -> "A" [] c = "b" -> "B" [] c = "e" -> "E" [] c = "j" -> "J"
    [] c = "k" -> "K"
    [] c = "l" -> "L" [] c = "n" -> "N" [] c = "s" -> "S" [] c = "t" -> "T"
    [] c = "v" -> "V" [] OTHER -> c

\* String.prototype.charCodeAt for the characters of the model.
charCodeAt(c) ==
  CASE c = " " -> 32 [] c = "!" -> 33 [] c = "'" -> 39 [] c = "0" -> 48
    [] c = "1" -> 49 [] c = "2" -> 50 [] c = "3" -> 51 [] c = "A" -> 65
    [] c = "B" -> 66 [] c = "a" -> 97 [] c = "b" -> 98 [] c = "c" -> 99
    [] c = "e" -> 101 [] c = "j" -> 106 [] c = "k" -> 107 [] c = "l" -> 108
    [] c = "n" -> 110 [] c = "s" -> 115 [] c = "t" -> 116 [] c = "v" -> 118
    [] OTHER -> 63

\* \s of the regular expressions.
IsSpace(c) == c \in {" ", "\t", "\n"}

\* [a-z0-9'] : what tokenize keeps besides whitespace.
IsWordChar(c) ==
  c \in {"a", "b", "c", "e", "j", "k", "l", "n", "s", "t", "v",
        "0", "1", "2", "3", "'"}

toLowerCase(s) == [i \in 1..Len(s) |-> LowerOf(s[i])]
toUpperCase(s) == [i \in 1..Len(s) |-> UpperOf(s[i])]

RECURSIVE TrimStart(_)
TrimStart(s) ==
  IF s = <<>> THEN <<>>
  ELSE IF IsSpace(Head(s)) THEN TrimStart(Tail(s)) ELSE s

RECURSIVE TrimEnd(_)
TrimEnd(s) ==
  IF s = <<>> THEN <<>>
  ELSE IF IsSpace(s[Len(s)]) THEN TrimEnd(SubSeq(s, 1, Len(s) - 1)) ELSE s

trim(s) == TrimEnd(TrimStart(s))

\* text.replace(/\s+/g, " ") : every run of whitespace becomes one space.
RECURSIVE CollapseSpaces(_)
CollapseSpaces(s) ==
  IF s = <<>> THEN <<>>
  ELSE IF IsSpace(Head(s))
       THEN <<" ">> \o CollapseSpaces(TrimStart(s))
       ELSE <<Head(s)>> \o CollapseSpaces(Tail(s))

\* normalizeText without the trim.
normalizeTextUntrimmed(text) == CollapseSpaces(text)

normalizeText(text) == trim(CollapseSpaces(text))

\* .replace(/[^a-z0-9\s']/g, " ")
StripPunctuation(s) ==
  [i \in 1..Len(s) |-> IF IsWordChar(s[i]) \/ IsSpace(s[i]) THEN s[i] ELSE " "]

\* .split(/\s+/).filter(Boolean) : the maximal runs of non-whitespace.
RECURSIVE SplitWords(_, _)
SplitWords(s, cur) ==
  IF s = <<>> THEN (IF cur = <<>> THEN <<>> ELSE <<cur>>)
  ELSE IF IsSpace(Head(s))
       THEN (IF cur = <<>> THEN <<>> ELSE <<cur>>) \o SplitWords(Tail(s), <<>>)
       ELSE SplitWords(Tail(s), Append(cur, Head(s)))

tokenize(text) == SplitWords(StripPunctuation(toLowerCase(text)), <<>>)

\* ------------------------------------------------------- 32-bit FNV-1a hash
\* A 32-bit unsigned value is the pair <<high 16 bits, low 16 bits>>.

RECURSIVE Xor(_, _, _)
Xor(a, b, bits) ==
  IF bits = 0 THEN 0
  ELSE ((a + b) % 2) + 2 * Xor(a \div 2, b \div 2, bits - 1)

FNV_OFFSET == <<33052, 40389>>      \* 0x811c9dc5
FNV_PRIME_HI == 256                 \* 0x01000193 >> 16
FNV_PRIME_LO == 403                 \* 0x01000193 & 0xffff

\* Math.imul(hash, 0x01000193) followed by hash >>>= 0.
Imul(h) ==
  LET lo == h[2] * FNV_PRIME_LO
      mid == (h[1] * FNV_PRIME_LO + h[2] * FNV_PRIME_HI + (lo \div 65536)) % 65536
  IN  <<mid, lo % 65536>>

RECURSIVE HashFrom(_, _)
HashFrom(h, token) ==
  IF token = <<>> THEN h
  ELSE HashFrom(Imul(<<h[1], Xor(h[2], charCodeAt(Head(token)), 16)>>), Tail(token))

hashToken(token, dimension) ==
  LET h == HashFrom(FNV_OFFSET, token)
  IN  ((h[1] % dimension) * (65536 % dimension) + h[2]) % dimension

\* ------------------------------------------------------------------ floats

Fin(n) == [k |-> "fin", v |-> n]
NaN == [k |-> "nan", v |-> 0]
PosInf == [k |-> "inf", v |-> 1]
NegInf == [k |-> "inf", v |-> -1]

isFinite(x) == x.k = "fin"

Sign(n) == IF n > 0 THEN 1 ELSE IF n < 0 THEN -1 ELSE 0

\* left[index] * right[index]; the product of two fixed-point values is
\* kept in units of 1/Scale^2, the unit of every score.
FMul(x, y) ==
  IF x.k = "nan" \/ y.k = "nan" THEN NaN
  ELSE IF x.k = "fin" /\ y.k = "fin" THEN Fin(x.v * y.v)
  ELSE IF Sign(x.v) * Sign(y.v) = 0 THEN NaN
  ELSE [k |-> "inf", v |-> Sign(x.v) * Sign(y.v)]

FAdd(x, y) ==
  IF x.k = "nan" \/ y.k = "nan" THEN NaN
  ELSE IF x.k = "fin" /\ y.k = "fin" THEN Fin(x.v + y.v)
  ELSE IF x.k = "inf" /\ y.k = "inf" THEN (IF x.v = y.v THEN x ELSE NaN)
  ELSE IF x.k = "inf" THEN x ELSE y

\* x < y on numbers (false whenever NaN is involved).
FLess(x, y) ==
  /\ x.k # "nan" /\ y.k # "nan"
  /\ CASE x.k = "fin" /\ y.k = "fin" -> x.v < y.v
       [] x.k = "inf" /\ y.k = "inf" -> x.v < y.v
       [] x.k = "inf" -> x.v < 0
       [] OTHER -> y.v > 0

\* x <= y on numbers (false whenever NaN is involved).
FLeq(x, y) == x.k # "nan" /\ y.k # "nan" /\ ~FLess(y, x)

\* ----------------------------------------------------------------- vectors

RECURSIVE SqrtBetween(_, _, _)
SqrtBetween(x, lo, hi) ==
  IF lo >= hi THEN lo
  ELSE LET mid == (lo + hi + 1) \div 2
       IN  IF mid * mid <= x THEN SqrtBetween(x, mid, hi)
           ELSE SqrtBetween(x, lo, mid - 1)

\* Math.sqrt on a fixed-point argument: the result in units of 1/Scale.
FixedSqrt(n) == SqrtBetween(n * Scale * Scale, 0, (n + 1) * Scale)

RECURSIVE CountInto(_, _, _)
CountInto(vector, tokens, dimension) ==
  IF tokens = <<>> THEN vector
  ELSE LET index == hashToken(Head(tokens), dimension)
       IN  CountInto([vector EXCEPT ![index + 1] = @ + 1], Tail(tokens), dimension)

RECURSIVE SumSquares(_)
SumSquares(vector) ==
  IF vector = <<>> THEN 0 ELSE Head(vector) * Head(vector) + SumSquares(Tail(vector))

\* The token counts per bucket, before normalisation.
BucketCounts(tokens, dimension) ==
  CountInto([i \in 1..dimension |-> 0], tokens, dimension)

vectorizeTokens(tokens, dimension) ==
  LET counts == BucketCounts(tokens, dimension)
      sumSquares == SumSquares(counts)
  IN  IF tokens = <<>> \/ sumSquares = 0
      THEN [i \in 1..dimension |-> Fin(0)]
      ELSE [i \in 1..dimension |->
              Fin((counts[i] * Scale * Scale) \div FixedSqrt(sumSquares))]

\* vectorize without the division by the norm.
vectorizeCounts(text, dimension) ==
  [i \in 1..dimension |-> Fin(BucketCounts(tokenize(text), dimension)[i] * Scale)]

\* vectorize of the ingest script: tokenize, count per bucket, divide by the norm.
vectorize(text, dimension) ==
  LET tokens == tokenize(text)
      counts == BucketCounts(tokens, dimension)
      sumSquares == SumSquares(counts)
  IN  IF tokens = <<>> THEN [i \in 1..dimension |-> Fin(0)]
      ELSE IF sumSquares > 0
      THEN [i \in 1..dimension |->
              Fin((counts[i] * Scale * Scale) \div FixedSqrt(sumSquares))]
      ELSE [i \in 1..dimension |-> Fin(counts[i] * Scale)]

isZeroVector(vector) == \A i \in 1..Len(vector) : vector[i] = Fin(0)

\* ------------------------------------------------------------------ ranker

RECURSIVE DotFrom(_, _, _, _)
DotFrom(left, right, index, sum) ==
  IF index > Len(left) THEN sum
  ELSE DotFrom(left, right, index + 1, FAdd(sum, FMul(left[index], right[index])))

\* dotProduct throws when the lengths differ: Threw is its outcome then.
Threw == [k |-> "threw", v |-> 0]

dotProduct(left, right) ==
  IF Len(left) # Len(right) THEN Threw ELSE DotFrom(left, right, 1, Fin(0))

\* The index of the first smallest score of matches (the inner loop).
RECURSIVE SmallestFrom(_, _, _)
SmallestFrom(matches, index, smallestIndex) ==
  IF index > Len(matches) THEN smallestIndex
  ELSE SmallestFrom(matches, index + 1,
         IF FLess(matches[index].score, matches[smallestIndex].score)
         THEN index ELSE smallestIndex)

\* The scan for the smallest entry left out: the first entry is taken.
SmallestIndexFirst(matches) == 1

SmallestIndex(matches) == SmallestFrom(matches, 2, 1)

\* A sort step that puts an element before the elements it ties with.
RECURSIVE InsertByScoreBeforeTies(_, _)
InsertByScoreBeforeTies(sorted, m) ==
  IF sorted = <<>> THEN <<m>>
  ELSE IF FLeq(Head(sorted).score, m.score)
       THEN <<m>> \o sorted
       ELSE <<Head(sorted)>> \o InsertByScoreBeforeTies(Tail(sorted), m)

\* Array.prototype.sort with (left, right) => right.score - left.score:
\* a stable sort, so an element goes after every element it does not beat.
RECURSIVE InsertByScore(_, _)
InsertByScore(sorted, m) ==
  IF sorted = <<>> THEN <<m>>
  ELSE IF FLess(Head(sorted).score, m.score)
       THEN <<m>> \o sorted
       ELSE <<Head(sorted)>> \o InsertByScore(Tail(sorted), m)

RECURSIVE SortFrom(_, _)
SortFrom(matches, sorted) ==
  IF matches = <<>> THEN sorted
  ELSE SortFrom(Tail(matches), InsertByScore(sorted, Head(matches)))

SortByScoreDescending(matches) == SortFrom(matches, <<>>)

\* The scan of selectTopMatches over verses[index..], matches so far given.
\* The outcome is [threw, matches].
RECURSIVE ScanFrom(_, _, _, _, _)
ScanFrom(verses, queryVector, limit, index, matches) ==
  IF index > Len(verses) THEN [threw |-> FALSE, matches |-> matches]
  ELSE LET verse == verses[index]
           score == dotProduct(queryVector, verse.embedding)
       IN  IF score = Threw THEN [threw |-> TRUE, matches |-> <<>>]
           ELSE IF ~isFinite(score)
           THEN ScanFrom(verses, queryVector, limit, index + 1, matches)
           ELSE IF Len(matches) < limit
           THEN ScanFrom(verses, queryVector, limit, index + 1,
                         Append(matches, [verse |-> verse, score |-> score]))
           ELSE IF FLeq(score, matches[SmallestIndex(matches)].score)
           THEN ScanFrom(verses, queryVector, limit, index + 1, matches)
           ELSE ScanFrom(verses, queryVector, limit, index + 1,
                         [matches EXCEPT ![SmallestIndex(matches)] =
                            [verse |-> verse, score |-> score]])

\* The scan starting one verse late.
selectTopMatchesSkipFirst(verses, queryVector, limit) ==
  IF limit = 0 THEN [threw |-> FALSE, matches |-> <<>>]
  ELSE LET scanned == ScanFrom(verses, queryVector, limit, 2, <<>>)
       IN  IF scanned.threw THEN scanned
           ELSE [threw |-> FALSE, matches |-> SortByScoreDescending(scanned.matches)]

\* The final sort left out.
selectTopMatchesUnsorted(verses, queryVector, limit) ==
  IF limit = 0 THEN [threw |-> FALSE, matches |-> <<>>]
  ELSE ScanFrom(verses, queryVector, limit, 1, <<>>)

selectTopMatches(verses, queryVector, limit) ==
  IF limit = 0 THEN [threw |-> FALSE, matches |-> <<>>]
  ELSE LET scanned == ScanFrom(verses, queryVector, limit, 1, <<>>)
       IN  IF scanned.threw THEN scanned
           ELSE [threw |-> FALSE, matches |-> SortByScoreDescending(scanned.matches)]

\* ------------------------------------------------------ the persisted store

\* Number.prototype.toString / String(n) for a non-negative integer.
Digit(d) ==
  CASE d = 0 -> "0" [] d = 1 -> "1" [] d = 2 -> "2" [] d = 3 -> "3" [] d = 4 -> "4"
    [] d = 5 -> "5" [] d = 6 -> "6" [] d = 7 -> "7" [] d = 8 -> "8" [] OTHER -> "9"

RECURSIVE String(_)
String(n) == IF n < 10 THEN Digit(n) ELSE String(n \div 10) \o Digit(n % 10)

DigitValue(c) ==
  CASE c = "0" -> 0 [] c = "1" -> 1 [] c = "2" -> 2 [] c = "3" -> 3 [] c = "4" -> 4
    [] c = "5" -> 5 [] c = "6" -> 6 [] c = "7" -> 7 [] c = "8" -> 8 [] c = "9" -> 9
    [] OTHER -> -1

RECURSIVE ParseDigits(_, _, _)
ParseDigits(s, acc, seen) ==
  IF s = <<>> \/ DigitValue(Head(s)) < 0
  THEN (IF seen THEN Fin(acc) ELSE NaN)
  ELSE ParseDigits(Tail(s), acc * 10 + DigitValue(Head(s)), TRUE)

\* Number.parseInt(raw, 10): leading whitespace, a sign, then digits.
parseInt(raw) ==
  LET s == TrimStart(raw)
  IN  IF s # <<>> /\ Head(s) = "-"
      THEN LET n == ParseDigits(Tail(s), 0, FALSE)
           IN  IF isFinite(n) THEN Fin(0 - n.v) ELSE n
      ELSE IF s # <<>> /\ Head(s) = "+" THEN ParseDigits(Tail(s), 0, FALSE)
      ELSE ParseDigits(s, 0, FALSE)

\* A metadata value that is absent (readMetadata returns undefined).
NoValue == <<"?">>

NLT == <<"N", "L", "T">>
KJV == <<"K", "J", "V">>
ESV == <<"E", "S", "V">>

\* A row as the ingest script writes it: the embedding is the vector of the text.
IngestedRow(translation, book, chapter, verse, text, dimension) ==
  [translation |-> translation, book |-> book, chapter |-> chapter,
   verse |-> verse, text |-> text,
   embedding |-> vectorizeTokens(tokenize(text), dimension)]

FixtureRows(translation, dimension) ==
  << IngestedRow(translation, "John", 3, 16, <<"a", " ", "b">>, dimension),
     IngestedRow(translation, "John", 3, 17, <<"b", " ", "b">>, dimension),
     IngestedRow(translation, "Romans", 8, 28, <<"a", " ", "c">>, dimension) >>

\* A row whose embedding blob holds other bytes than the ingest script writes.
RawRow(translation, book, chapter, verse, text, embedding) ==
  [translation |-> translation, book |-> book, chapter |-> chapter,
   verse |-> verse, text |-> text, embedding |-> embedding]

\* The database files of the model.
StoreNLT ==
  [exists |-> TRUE, translation |-> NLT, dimension |-> <<"2">>,
   rows |-> FixtureRows(NLT, 2)]

StoreKJV ==
  [exists |-> TRUE, translation |-> KJV, dimension |-> <<"2">>,
   rows |-> FixtureRows(KJV, 2)]

StoreNoTranslation ==
  [exists |-> TRUE, translation |-> NoValue, dimension |-> <<"2">>,
   rows |-> FixtureRows(NLT, 2)]

StoreMissing ==
  [exists |-> FALSE, translation |-> NoValue, dimension |-> NoValue, rows |-> <<>>]

StoreNoDimension ==
  [exists |-> TRUE, translation |-> NLT, dimension |-> NoValue,
   rows |-> FixtureRows(NLT, 2)]

StoreZeroDimension ==
  [exists |-> TRUE, translation |-> NLT, dimension |-> <<"0">>,
   rows |-> FixtureRows(NLT, 2)]

StoreNegativeDimension ==
  [exists |-> TRUE, translation |-> NLT, dimension |-> <<"-", "2">>,
   rows |-> FixtureRows(NLT, 2)]

StoreTextDimension ==
  [exists |-> TRUE, translation |-> NLT, dimension |-> <<"N", "a", "N">>,
   rows |-> FixtureRows(NLT, 2)]

StoreOtherRows ==
  [exists |-> TRUE, translation |-> NLT, dimension |-> <<"2">>,
   rows |-> FixtureRows(KJV, 2)]

StoreDamaged ==
  [exists |-> TRUE, translation |-> NLT, dimension |-> <<"2">>,
   rows |-> << RawRow(NLT, "John", 3, 16, <<"a">>, <<Fin(30), Fin(0)>>),
               RawRow(NLT, "John", 3, 17, <<"b">>, <<PosInf, Fin(Scale)>>),
               RawRow(NLT, "Romans", 8, 28, <<"c">>, <<Fin(Scale), Fin(0)>>) >>]

StoreShortBlob ==
  [exists |-> TRUE, translation |-> NLT, dimension |-> <<"2">>,
   rows |-> << IngestedRow(NLT, "John", 3, 16, <<"a">>, 2),
               RawRow(NLT, "John", 3, 17, <<"b">>, <<Fin(Scale)>>) >>]

\* More verses than the largest limit: Psalms 1:1 to 1:(MAX_LIMIT + 1).
StoreLarge ==
  LET even == IngestedRow(NLT, "Psalms", 1, 2, <<"a">>, 2)
      odd == IngestedRow(NLT, "Psalms", 1, 1, <<"a", " ", "b">>, 2)
  IN  [exists |-> TRUE, translation |-> NLT, dimension |-> <<"2">>,
       rows |-> [i \in 1..(MAX_LIMIT + 1) |->
                   [(IF i % 2 = 0 THEN even ELSE odd) EXCEPT !.verse = i]]]

\* The database files by name; the state holds the name of the file in place.
Stores ==
  {"nlt", "kjv", "no-translation", "missing", "no-dimension", "zero-dimension",
   "negative-dimension", "text-dimension", "other-rows", "damaged", "short-blob",
   "large"}

Database(name) ==
  CASE name = "nlt" -> StoreNLT
    [] name = "kjv" -> StoreKJV
    [] name = "no-translation" -> StoreNoTranslation
    [] name = "no-dimension" -> StoreNoDimension
    [] name = "zero-dimension" -> StoreZeroDimension
    [] name = "negative-dimension" -> StoreNegativeDimension
    [] name = "text-dimension" -> StoreTextDimension
    [] name = "other-rows" -> StoreOtherRows
    [] name = "damaged" -> StoreDamaged
    [] name = "short-blob" -> StoreShortBlob
    [] name = "large" -> StoreLarge
    [] OTHER -> StoreMissing

readMetadataTranslation(db) ==
  IF db.translation = NoValue THEN DEFAULT_TRANSLATION ELSE db.translation

\* SELECT ... FROM verses WHERE translation = ?, each row turned into a record.
RECURSIVE loadVerses(_, _)
loadVerses(rows, translation) ==
  IF rows = <<>> THEN <<>>
  ELSE IF Head(rows).translation = translation
       THEN << [book |-> Head(rows).book, chapter |-> Head(rows).chapter,
                verse |-> Head(rows).verse, text |-> Head(rows).text,
                embedding |-> Head(rows).embedding] >>
            \o loadVerses(Tail(rows), translation)
       ELSE loadVerses(Tail(rows), translation)

NoCorpus == [translation |-> NoValue, dimension |-> 0, verses |-> <<>>]

\* A corpus load that accepts a translation without verses.
hasNoVersesNever(verses) == FALSE

\* verses.length === 0
hasNoVerses(verses) == Len(verses) = 0

\* The body of the corpus promise: [ok, corpus, error].  failure is "wasm" when
\* the SQL.js binary cannot be loaded, "read" when reading the database file
\* fails although the file exists, "none" otherwise.
loadCorpusBody(db, failure) ==
  IF failure = "wasm"
  THEN [ok |-> FALSE, corpus |-> NoCorpus, error |-> "unable-to-load-sql-wasm"]
  ELSE IF failure = "read" \/ ~db.exists
  THEN [ok |-> FALSE, corpus |-> NoCorpus, error |-> "unable-to-read-database"]
  ELSE LET translation == readMetadataTranslation(db)
           dimension == IF db.dimension = NoValue \/ db.dimension = <<>>
                        THEN NaN ELSE parseInt(db.dimension)
           verses == loadVerses(db.rows, translation)
       IN  IF ~isFinite(dimension) \/ dimension.v <= 0
           THEN [ok |-> FALSE, corpus |-> NoCorpus, error |-> "invalid-dimension"]
           ELSE IF hasNoVerses(verses)
           THEN [ok |-> FALSE, corpus |-> NoCorpus, error |-> "no-verses"]
           ELSE [ok |-> TRUE, error |-> "",
                 corpus |-> [translation |-> translation,
                             dimension |-> dimension.v, verses |-> verses]]

\* --------------------------------------------------- translation documents
\* A document is book -> chapter key -> verse key -> text.

NLTDocument ==
  [book \in {"John", "Romans"} |->
     IF book = "John"
     THEN [c \in {"3"} |-> [v \in {"16", "17"} |->
             IF v = "16" THEN <<"a", " ", "b">> ELSE <<"b", " ", "b">>]]
     ELSE [c \in {"8"} |-> [v \in {"28"} |-> <<"a", " ", "c">>]]]

KJVRemoteDocument ==
  [book \in {"John", "Romans"} |->
     IF book = "John"
     THEN [c \in {"3"} |-> [v \in {"16", "17"} |->
             IF v = "16" THEN <<"k", "1">> ELSE <<"k", "2">>]]
     ELSE [c \in {"8"} |-> [v \in {"28"} |-> <<"k", "3">>]]]

KJVLocalDocument ==
  [book \in {"John", "Romans"} |->
     IF book = "John"
     THEN [c \in {"3"} |-> [v \in {"16", "17"} |->
             IF v = "16" THEN <<"K", "1">> ELSE <<"K", "2">>]]
     ELSE [c \in {"8"} |-> [v \in {"28"} |-> <<"K", "3">>]]]

\* A document without John 3:17 and without Romans 8: its chapter key is "08".
ESVDocument ==
  [book \in {"John", "Romans"} |->
     IF book = "John"
     THEN [c \in {"3"} |-> [v \in {"16"} |-> <<"s", "1">>]]
     ELSE [c \in {"08"} |-> [v \in {"28"} |-> <<"s", "3">>]]]

NoDocument == [book \in {} |-> 0]

\* The translation codes a search of the model can request.
TranslationCodes == {NLT, KJV, ESV}

\* The object at {prefix}/{T}/{T}_bible.json of the remote store.
RemoteObject(translation) ==
  CASE translation = NLT -> [status |-> "ok", doc |-> NLTDocument]
    [] translation = KJV -> [status |-> "ok", doc |-> KJVRemoteDocument]
    [] OTHER -> [status |-> "not-found", doc |-> NoDocument]

\* The file lib/bible/translations/{T}/{T}_bible.json.
LocalFile(translation) ==
  CASE translation = NLT -> [status |-> "ok", doc |-> NLTDocument]
    [] translation = KJV -> [status |-> "ok", doc |-> KJVLocalDocument]
    [] translation = ESV -> [status |-> "ok", doc |-> ESVDocument]
    [] OTHER -> [status |-> "not-found", doc |-> NoDocument]

\* lookupTranslationText giving the corpus's text for a passage the document lacks.
lookupTranslationTextOrPrimary(translation, verse) ==
  IF /\ verse.book \in DOMAIN translation
     /\ String(verse.chapter) \in DOMAIN translation[verse.book]
     /\ String(verse.verse) \in DOMAIN translation[verse.book][String(verse.chapter)]
  THEN [ok |-> TRUE, error |-> "",
        text |-> translation[verse.book][String(verse.chapter)][String(verse.verse)]]
  ELSE [ok |-> TRUE, error |-> "", text |-> verse.text]

\* lookupTranslationText: [ok, text, error].
lookupTranslationText(translation, verse) ==
  IF verse.book \notin DOMAIN translation
  THEN [ok |-> FALSE, text |-> <<>>, error |-> "book-not-available"]
  ELSE IF String(verse.chapter) \notin DOMAIN translation[verse.book]
  THEN [ok |-> FALSE, text |-> <<>>, error |-> "chapter-not-available"]
  ELSE IF String(verse.verse) \notin DOMAIN translation[verse.book][String(verse.chapter)]
  THEN [ok |-> FALSE, text |-> <<>>, error |-> "verse-not-available"]
  ELSE [ok |-> TRUE, error |-> "",
        text |-> translation[verse.book][String(verse.chapter)][String(verse.verse)]]

\* ------------------------------------------------------ search arguments

\* An argument the caller left out.
Undefined == <<"undefined">>
NoNumber == [k |-> "undef", v |-> 0]

\* A limit is a number counted in halves (Half(3) is 1.5), NaN or an infinity.
Half(n) == [k |-> "fin", v |-> n]
Whole(n) == Half(2 * n)

\* Math.floor of a finite limit.
MathFloor(raw) == raw.v \div 2

\* clampLimit without the Math.min.
clampLimitUnclamped(raw) ==
  IF ~isFinite(raw)
  THEN [ok |-> FALSE, limit |-> 0, error |-> "limit-not-finite"]
  ELSE IF MathFloor(raw) < 0
  THEN [ok |-> FALSE, limit |-> 0, error |-> "limit-negative"]
  ELSE [ok |-> TRUE, error |-> "", limit |-> MathFloor(raw)]

\* clampLimit: [ok, limit, error].
clampLimit(raw) ==
  IF ~isFinite(raw)
  THEN [ok |-> FALSE, limit |-> 0, error |-> "limit-not-finite"]
  ELSE IF MathFloor(raw) < 0
  THEN [ok |-> FALSE, limit |-> 0, error |-> "limit-negative"]
  ELSE [ok |-> TRUE, error |-> "",
        limit |-> IF MathFloor(raw) < MAX_LIMIT THEN MathFloor(raw) ELSE MAX_LIMIT]

\* rawLimit with maxResults taken before limit.
rawLimitOfMaxResultsFirst(limit, maxResults) ==
  IF maxResults # NoNumber THEN maxResults
  ELSE IF limit # NoNumber THEN limit
  ELSE Whole(DEFAULT_LIMIT)

\* limit ?? maxResults ?? DEFAULT_LIMIT
rawLimitOf(limit, maxResults) ==
  IF limit # NoNumber THEN limit
  ELSE IF maxResults # NoNumber THEN maxResults
  ELSE Whole(DEFAULT_LIMIT)

\* normalizeTranslation falling back to another code.
normalizeTranslationOtherDefault(value) ==
  IF value = Undefined \/ trim(value) = <<>>
  THEN <<"K", "J", "V">>
  ELSE toUpperCase(trim(value))

\* normalizeTranslation without the toUpperCase.
normalizeTranslationKeepCase(value) ==
  IF value = Undefined \/ trim(value) = <<>>
  THEN DEFAULT_TRANSLATION
  ELSE trim(value)

normalizeTranslation(value) ==
  IF value = Undefined \/ trim(value) = <<>>
  THEN DEFAULT_TRANSLATION
  ELSE toUpperCase(trim(value))

\* ------------------------------------------------------------------- state

\* Most remote requests, and most file reads, of translation documents in a run.
MaxLoads == 2

\* The callers that can have a searchBible call in flight.
Callers == {1, 2}

VARIABLES
  store,             \* which database file is at data/bible.sqlite
  blobToken,         \* whether BLOB_READ_WRITE_TOKEN is set
  corpusPromise,     \* the module's corpusPromise: [state, corpus, error]
  translationCache,  \* the module's translationCache: code -> [state, doc]
  databaseReads,     \* reads of the database file so far
  remoteRequests,    \* requests sent to the remote store so far
  fileReads,         \* reads of local translation files so far
  pc,                \* per caller: where its searchBible call stands
  args,              \* per caller: the arguments of its call
  local,             \* per caller: the local variables of its call
  outcome,           \* per caller: what its call returned or threw
  rankInput,         \* the arguments of a selectTopMatches call on its own
  rankOutput,        \* what that call returned
  embedInput,        \* the text and dimension of a vectorizer call on its own
  embedOutput,       \* the vectors the two vectorizers returned for them
  sourceFiles,       \* code -> content of lib/bible/translations/{T}/{T}_bible.json
  remoteObjects,     \* code -> content of the remote object {prefix}/{T}/{T}_bible.json
  remoteManifestFile, \* the remote object {prefix}/manifest.json
  localManifestFile, \* the file data/translations-manifest.json
  syncPc,            \* where syncTranslationsWithBlob stands
  index,             \* the position of its loop in entries
  manifest,          \* its manifest (the remote manifest in memory)
  localManifest,     \* its localManifest
  manifestDirty,
  localManifestDirty,
  quotaExceeded,
  forceUpload,       \* FORCE_BLOB_UPLOAD === "true" in this run
  runLog,            \* code -> what the run did for the translation
  manifestWrites,    \* writes of each manifest in this run: [remote, local]
  runs,              \* sync runs so far
  API_KEY,           \* the route module's API_KEY (process.env.API_KEY)
  request,           \* the request GET is handling
  response           \* the response GET has returned for it

vars ==
  << store, blobToken, corpusPromise, translationCache, databaseReads,
     remoteRequests, fileReads, pc, args, local, outcome, rankInput, rankOutput,
     embedInput, embedOutput,
     sourceFiles, remoteObjects, remoteManifestFile, localManifestFile, syncPc,
     index, manifest, localManifest, manifestDirty, localManifestDirty,
     quotaExceeded, forceUpload, runLog, manifestWrites, runs, API_KEY,
     request, response >>

environment == << store, blobToken >>
engine == << corpusPromise, translationCache, databaseReads, remoteRequests, fileReads >>
calls == << pc, args, local, outcome >>
ranking == << rankInput, rankOutput, embedInput, embedOutput >>
syncWorld == << sourceFiles, remoteObjects, remoteManifestFile, localManifestFile >>
syncRun ==
  << syncPc, index, manifest, localManifest, manifestDirty, localManifestDirty,
     quotaExceeded, forceUpload, runLog, manifestWrites, runs >>
sync == << syncWorld, syncRun >>
web == << API_KEY, request, response >>

NoArgs ==
  [term |-> <<>>, limit |-> NoNumber, maxResults |-> NoNumber, translation |-> Undefined]

NoLocal ==
  [query |-> <<>>, clampedLimit |-> 0, requestedTranslation |-> Undefined,
   matches |-> <<>>, corpusBefore |-> "unset", remoteBefore |-> 0,
   fileBefore |-> 0, cacheBefore |-> [t \in TranslationCodes |-> "absent"]]

NoOutcome == [kind |-> "none", results |-> <<>>, error |-> ""]
Returned(results) == [kind |-> "returned", results |-> results, error |-> ""]
Thrown(error) == [kind |-> "threw", results |-> <<>>, error |-> error]

AbsentEntry == [state |-> "absent", doc |-> NoDocument, error |-> ""]

NoRankInput == [verses |-> <<>>, queryVector |-> <<>>, limit |-> 0]
NoRankOutput == [called |-> FALSE, threw |-> FALSE, matches |-> <<>>]

NoEmbedInput == [text |-> <<>>, dimension |-> 1]
NoEmbedOutput == [called |-> FALSE, stored |-> <<>>, query |-> <<>>]

\* No vectorizer call on its own.
NoEmbed ==
  /\ embedInput = NoEmbedInput
  /\ embedOutput = NoEmbedOutput

\* The state of every cache entry, without the documents.
CacheStates == [t \in TranslationCodes |-> translationCache[t].state]

\* ------------------------------------------------------------- searchBible

\* matches.map(...) of the primary branch.
primaryResults(corpus, matches) ==
  [i \in 1..Len(matches) |->
     [book |-> matches[i].verse.book, chapter |-> matches[i].verse.chapter,
      verse |-> matches[i].verse.verse, text |-> matches[i].verse.text,
      translation |-> corpus.translation, score |-> matches[i].score]]

\* The translated branch keeping the corpus's text.
translatedResultsPrimaryText(translationJson, matches, requestedTranslation) ==
  Returned(
    [i \in 1..Len(matches) |->
       [book |-> matches[i].verse.book, chapter |-> matches[i].verse.chapter,
        verse |-> matches[i].verse.verse, text |-> matches[i].verse.text,
        translation |-> requestedTranslation, score |-> matches[i].score]])

\* The translated branch listing the matches from the last to the first.
translatedResultsReversed(translationJson, matches, requestedTranslation) ==
  Returned(
    [i \in 1..Len(matches) |->
       LET m == matches[Len(matches) + 1 - i]
       IN  [book |-> m.verse.book, chapter |-> m.verse.chapter, verse |-> m.verse.verse,
            text |-> lookupTranslationTextOrPrimary(translationJson, m.verse).text,
            translation |-> requestedTranslation, score |-> m.score]])

\* matches.map(...) of the translated branch; a failed lookup throws.
translatedResults(translationJson, matches, requestedTranslation) ==
  LET failed == {i \in 1..Len(matches) :
                   ~lookupTranslationText(translationJson, matches[i].verse).ok}
  IN  IF failed # {}
      THEN Thrown(lookupTranslationText(
                    translationJson,
                    matches[CHOOSE i \in failed : \A j \in failed : i <= j].verse).error)
      ELSE Returned(
             [i \in 1..Len(matches) |->
                [book |-> matches[i].verse.book, chapter |-> matches[i].verse.chapter,
                 verse |-> matches[i].verse.verse,
                 text |-> lookupTranslationText(translationJson, matches[i].verse).text,
                 translation |-> requestedTranslation, score |-> matches[i].score]])

\* A promise test that also passes over a settled promise.
isCorpusPromiseUnsetOrSettled(promise) == promise.state # "pending"

\* if (!corpusPromise)
isCorpusPromiseUnset(promise) == promise.state = "unset"

\* searchBible up to its first await: the term and limit checks, then loadCorpus().
Search(p, a) ==
  /\ pc[p] = "idle"
  /\ args' = [args EXCEPT ![p] = a]
  /\ LET query == normalizeText(a.term)
         clamped == clampLimit(rawLimitOf(a.limit, a.maxResults))
         started == [NoLocal EXCEPT !.query = query,
                                    !.corpusBefore = corpusPromise.state,
                                    !.remoteBefore = remoteRequests,
                                    !.fileBefore = fileReads,
                                    !.cacheBefore = CacheStates]
     IN  IF query = <<>>
         THEN /\ outcome' = [outcome EXCEPT ![p] = Returned(<<>>)]
              /\ pc' = [pc EXCEPT ![p] = "done"]
              /\ local' = [local EXCEPT ![p] = started]
              /\ UNCHANGED corpusPromise
         ELSE IF ~clamped.ok
         THEN /\ outcome' = [outcome EXCEPT ![p] = Thrown(clamped.error)]
              /\ pc' = [pc EXCEPT ![p] = "done"]
              /\ local' = [local EXCEPT ![p] = started]
              /\ UNCHANGED corpusPromise
         ELSE IF clamped.limit = 0
         THEN /\ outcome' = [outcome EXCEPT ![p] = Returned(<<>>)]
              /\ pc' = [pc EXCEPT ![p] = "done"]
              /\ local' = [local EXCEPT ![p] = started]
              /\ UNCHANGED corpusPromise
         ELSE /\ local' = [local EXCEPT ![p] =
                             [started EXCEPT
                                !.clampedLimit = clamped.limit,
                                !.requestedTranslation = normalizeTranslation(a.translation)]]
              /\ corpusPromise' = IF isCorpusPromiseUnset(corpusPromise)
                                  THEN [corpusPromise EXCEPT !.state = "pending"]
                                  ELSE corpusPromise
              /\ pc' = [pc EXCEPT ![p] = "awaitCorpus"]
              /\ UNCHANGED outcome
  /\ UNCHANGED << environment, translationCache, databaseReads, remoteRequests,
                  fileReads, ranking, sync >>

\* The corpus promise settles: the SQL.js binary is loaded, the database file is
\* read and parsed, or one of these fails.
SettleCorpus ==
  /\ corpusPromise.state = "pending"
  /\ \E failure \in {"none", "wasm", "read"} :
       LET body == loadCorpusBody(Database(store), failure)
       IN  /\ corpusPromise' =
                [state |-> IF body.ok THEN "fulfilled" ELSE "rejected",
                 corpus |-> body.corpus, error |-> body.error]
           /\ databaseReads' = IF failure = "wasm" THEN databaseReads
                               ELSE databaseReads + 1
  /\ UNCHANGED << environment, web, translationCache, remoteRequests,
                  fileReads, calls, ranking, sync >>

\* A load that asks the remote store whether a token is configured or not.
startTranslationLoadRemoteFirst(translation) ==
  /\ translationCache' =
       [translationCache EXCEPT ![translation] =
          [state |-> "fetching", doc |-> NoDocument, error |-> ""]]
  /\ remoteRequests' = remoteRequests + 1
  /\ fileReads' = fileReads

\* loadTranslationJson when the cache has no entry: the load starts with a remote
\* request if a token is configured, with the file read otherwise.
startTranslationLoad(translation) ==
  /\ translationCache' =
       [translationCache EXCEPT ![translation] =
          [state |-> IF blobToken THEN "fetching" ELSE "reading", doc |-> NoDocument,
           error |-> ""]]
  /\ remoteRequests' = IF blobToken THEN remoteRequests + 1 ELSE remoteRequests
  /\ fileReads' = IF blobToken THEN fileReads ELSE fileReads + 1

\* A cache test that passes over an entry whose load is still in flight.
isCacheMissUnlessLoaded(entry) == entry.state # "fulfilled"

\* if (!cached): the cache holds no promise for the code.
isCacheMiss(entry) == entry.state = "absent"

\* The request compared with the default code instead of the corpus's.
isPrimaryTranslationDefault(requested, corpus) == requested = DEFAULT_TRANSLATION

\* requestedTranslation === corpus.translation
isPrimaryTranslation(requested, corpus) == requested = corpus.translation

\* searchBible from the settled corpus promise to its return or its next await.
ResumeWithCorpus(p) ==
  /\ pc[p] = "awaitCorpus"
  /\ corpusPromise.state \in {"fulfilled", "rejected"}
  /\ LET corpus == corpusPromise.corpus
         tokens == tokenize(local[p].query)
         queryVector == vectorizeTokens(tokens, corpus.dimension)
         selected == selectTopMatches(corpus.verses, queryVector, local[p].clampedLimit)
         requested == local[p].requestedTranslation
         finish(o) == /\ outcome' = [outcome EXCEPT ![p] = o]
                      /\ pc' = [pc EXCEPT ![p] = "done"]
                      /\ UNCHANGED << local, translationCache, remoteRequests, fileReads >>
     IN  IF corpusPromise.state = "rejected" THEN finish(Thrown(corpusPromise.error))
         ELSE IF tokens = <<>> THEN finish(Returned(<<>>))
         ELSE IF isZeroVector(queryVector) THEN finish(Returned(<<>>))
         ELSE IF selected.threw THEN finish(Thrown("vectors-differ-in-length"))
         ELSE IF isPrimaryTranslation(requested, corpus)
         THEN /\ outcome' = [outcome EXCEPT ![p] =
                               Returned(primaryResults(corpus, selected.matches))]
              /\ pc' = [pc EXCEPT ![p] = "done"]
              /\ local' = [local EXCEPT ![p].matches = selected.matches]
              /\ UNCHANGED << translationCache, remoteRequests, fileReads >>
         ELSE /\ local' = [local EXCEPT ![p].matches = selected.matches]
              /\ pc' = [pc EXCEPT ![p] = "awaitTranslation"]
              /\ UNCHANGED outcome
              /\ IF isCacheMiss(translationCache[toUpperCase(requested)])
                 THEN /\ remoteRequests < MaxLoads
                      /\ fileReads < MaxLoads
                      /\ startTranslationLoad(toUpperCase(requested))
                 ELSE UNCHANGED << translationCache, remoteRequests, fileReads >>
  /\ UNCHANGED << environment, web, corpusPromise, databaseReads, args, ranking, sync >>

\* The calls that await the load of a translation throw its error.
failAwaiting(translation, error) ==
  /\ pc' = [p \in Callers |->
              IF pc[p] = "awaitTranslation"
                 /\ toUpperCase(local[p].requestedTranslation) = translation
              THEN "done" ELSE pc[p]]
  /\ outcome' = [p \in Callers |->
                   IF pc[p] = "awaitTranslation"
                      /\ toUpperCase(local[p].requestedTranslation) = translation
                   THEN Thrown(error) ELSE outcome[p]]

\* A failed load whose rejected promise stays in the cache.
rejectTranslationKept(translation, error) ==
  /\ translationCache' =
       [translationCache EXCEPT ![translation] =
          [state |-> "rejected", doc |-> NoDocument, error |-> error]]
  /\ failAwaiting(translation, error)

\* The load of a translation fails: the entry is deleted and every call that
\* awaits it throws.
rejectTranslation(translation, error) ==
  /\ translationCache' = [translationCache EXCEPT ![translation] = AbsentEntry]
  /\ failAwaiting(translation, error)

\* The remote store answers the request of loadTranslationFromBlob.
SettleFetch(translation) ==
  /\ translationCache[translation].state = "fetching"
  /\ \E answer \in {"unreachable", "status", "as-stored", "null-payload", "invalid-payload"} :
       LET \* JSON.parse gives null for the payload null, and the resolver tests
           \* if (remote) on what loadTranslationFromBlob returned.
           remote == CASE answer = "null-payload" -> [status |-> "null", doc |-> NoDocument]
                       [] answer = "invalid-payload" -> [status |-> "invalid", doc |-> NoDocument]
                       [] OTHER -> RemoteObject(translation)
       IN
       CASE answer = "unreachable" ->
              /\ rejectTranslation(translation, "blob-unreachable")
              /\ UNCHANGED fileReads
         [] answer = "status" ->
              /\ rejectTranslation(translation, "blob-status")
              /\ UNCHANGED fileReads
         [] OTHER ->
              IF remote.status \in {"not-found", "null"}
              THEN /\ fileReads < MaxLoads
                   /\ translationCache' =
                        [translationCache EXCEPT ![translation].state = "reading"]
                   /\ fileReads' = fileReads + 1
                   /\ UNCHANGED << pc, outcome >>
              ELSE IF remote.status = "invalid"
              THEN /\ rejectTranslation(translation, "blob-invalid-json")
                   /\ UNCHANGED fileReads
              ELSE /\ translationCache' =
                        [translationCache EXCEPT ![translation] =
                           [state |-> "fulfilled", doc |-> remote.doc,
                            error |-> ""]]
                   /\ UNCHANGED << pc, outcome, fileReads >>
  /\ UNCHANGED << environment, web, corpusPromise, databaseReads, remoteRequests,
                  args, local, ranking, sync >>

\* The file read of loadTranslationFromFilesystem completes.
SettleRead(translation) ==
  /\ translationCache[translation].state = "reading"
  /\ \E readFails \in BOOLEAN :
       IF readFails \/ LocalFile(translation).status = "not-found"
       THEN rejectTranslation(translation, "file-unreadable")
       ELSE IF LocalFile(translation).status = "invalid"
       THEN rejectTranslation(translation, "file-invalid-json")
       ELSE /\ translationCache' =
                 [translationCache EXCEPT ![translation] =
                    [state |-> "fulfilled", doc |-> LocalFile(translation).doc, error |-> ""]]
            /\ UNCHANGED << pc, outcome >>
  /\ UNCHANGED << environment, web, corpusPromise, databaseReads, remoteRequests,
                  fileReads, args, local, ranking, sync >>

\* searchBible from the settled translation promise to its return.
ResumeWithTranslation(p) ==
  /\ pc[p] = "awaitTranslation"
  /\ translationCache[toUpperCase(local[p].requestedTranslation)].state
       \in {"fulfilled", "rejected"}
  /\ outcome' = [outcome EXCEPT ![p] =
                   IF translationCache[toUpperCase(local[p].requestedTranslation)].state
                        = "rejected"
                   THEN Thrown(translationCache[
                                 toUpperCase(local[p].requestedTranslation)].error)
                   ELSE translatedResults(
                          translationCache[toUpperCase(local[p].requestedTranslation)].doc,
                          local[p].matches, local[p].requestedTranslation)]
  /\ pc' = [pc EXCEPT ![p] = "done"]
  /\ UNCHANGED << environment, web, engine, args, local, ranking, sync >>

\* The caller takes the outcome and is free to search again.
Return(p) ==
  /\ pc[p] = "done"
  /\ pc' = [pc EXCEPT ![p] = "idle"]
  /\ args' = [args EXCEPT ![p] = NoArgs]
  /\ local' = [local EXCEPT ![p] = NoLocal]
  /\ outcome' = [outcome EXCEPT ![p] = NoOutcome]
  /\ UNCHANGED << environment, engine, ranking, sync >>

\* -------------------------------------------- translation sync (ingest-bible)

\* Most sync runs of the model.
MaxRuns == 3

\* The directories of lib/bible/translations in the order readdir lists them.
entries == <<KJV, NLT>>
SyncCodes == {entries[i] : i \in 1..Len(entries)}

\* The contents a translation file can have; NoFile when there is none.
Contents == {1, 2}
NoFile == 0

\* buffer.byteLength, and the digests of a content: two contents never share one.
byteLength(content) == 10 + content
createSha256(content) == <<"sha256", content>>
\* An MD5 that is the same for every content.
createMd5Constant(content) == <<"md5", 0>>

createMd5(content) == <<"md5", content>>

\* A manifest maps a code to {hash, size}; NoEntry where it has no entry.
NoEntry == [hash |-> <<"none", 0>>, size |-> 0]
EmptyManifest == [t \in SyncCodes |-> NoEntry]

\* What a run did for one translation.
NoStep ==
  [result |-> "none", reads |-> 0, probes |-> 0, uploads |-> 0, warned |-> {},
   message |-> ""]

\* The answers of the remote store to a HEAD and to a PUT of a document.
ProbeAnswers == {"as-stored", "unreachable", "no-headers", "no-length"}
PutAnswers == {"ok", "Storage quota exceeded", "Internal Server Error"}

\* An error test that finds the quota message in every error.
isQuotaExceededErrorAlways(message) == TRUE

\* An error test that never finds the quota message.
isQuotaExceededErrorNever(message) == FALSE

\* isQuotaExceededError: the message includes "Storage quota exceeded".
isQuotaExceededError(message) == message = "Storage quota exceeded"

\* The local manifest test without the forceUpload override.
matchesLocalManifestForced(forceUploadSet, localEntry, hashSha256) ==
  localEntry # NoEntry /\ localEntry.hash = hashSha256

\* The local manifest test that never matches.
matchesLocalManifestNever(forceUploadSet, localEntry, hashSha256) == FALSE

\* !forceUpload && localEntry?.hash === hashSha256
matchesLocalManifest(forceUploadSet, localEntry, hashSha256) ==
  ~forceUploadSet /\ localEntry # NoEntry /\ localEntry.hash = hashSha256

\* The remote manifest test that never matches.
matchesRemoteManifestNever(forceUploadSet, remoteEntry, hashSha256) == FALSE

\* !forceUpload && remoteEntry?.hash === hashSha256
matchesRemoteManifest(forceUploadSet, remoteEntry, hashSha256) ==
  ~forceUploadSet /\ remoteEntry # NoEntry /\ remoteEntry.hash = hashSha256

\* An entry comparison that finds no difference between any two entries.
entryDiffersNever(entry, other) == FALSE

\* An entry comparison that finds a difference between any two entries.
entryDiffersAlways(entry, other) == TRUE

\* !entry || entry.hash !== other.hash || entry.size !== other.size
entryDiffers(entry, other) ==
  entry = NoEntry \/ entry.hash # other.hash \/ entry.size # other.size

\* getBlobMetadata: [threw, exists, etag, contentLength]; no etag is <<>>, no
\* content length is -1.
getBlobMetadata(remoteObject, answer) ==
  IF answer = "unreachable"
  THEN [threw |-> TRUE, exists |-> FALSE, etag |-> <<>>, contentLength |-> -1]
  ELSE IF remoteObject = NoFile
  THEN [threw |-> FALSE, exists |-> FALSE, etag |-> <<>>, contentLength |-> -1]
  ELSE IF answer = "no-headers"
  THEN [threw |-> FALSE, exists |-> TRUE, etag |-> <<>>, contentLength |-> -1]
  ELSE IF answer = "no-length"
  THEN [threw |-> FALSE, exists |-> TRUE, etag |-> createMd5(remoteObject),
        contentLength |-> -1]
  ELSE [threw |-> FALSE, exists |-> TRUE, etag |-> createMd5(remoteObject),
        contentLength |-> byteLength(remoteObject)]

\* A put that does not throw when the store refuses the object.
putBlobObjectSilent(body, remoteObject, putAnswer) ==
  [threw |-> FALSE, message |-> "",
   remoteObject |-> IF putAnswer = "ok" THEN body ELSE remoteObject]

\* putBlobObject: [threw, message, remoteObject]; it throws with the store's
\* answer in the message when the response is not ok.
putBlobObject(body, remoteObject, putAnswer) ==
  [threw |-> putAnswer # "ok",
   message |-> IF putAnswer = "ok" THEN "" ELSE putAnswer,
   remoteObject |-> IF putAnswer = "ok" THEN body ELSE remoteObject]

\* syncTranslationFileToBlob for one translation.  readOk, probeAnswer and
\* putAnswer are what the file read, the HEAD and the PUT answer if they are
\* made.  The result holds the two manifests and the remote object after the
\* call, the two changed flags, whether it threw and with which message, and
\* what it did.
syncTranslationFileToBlob(translation, content, remoteManifest, localMan, forceUploadSet, remoteObject, readOk, probeAnswer, putAnswer) ==
  LET hashSha256 == createSha256(content)
      hashMd5 == createMd5(content)
      remoteEntry == remoteManifest[translation]
      localEntry == localMan[translation]
      entry == [hash |-> hashSha256, size |-> byteLength(content)]
      metadata == getBlobMetadata(remoteObject, probeAnswer)
      sizeMatches == metadata.contentLength = -1
                       \/ metadata.contentLength = byteLength(content)
      probed == ~forceUploadSet
      put == putBlobObject(content, remoteObject, putAnswer)
      inspectWarning == IF probed /\ metadata.threw THEN {"unable-to-inspect"} ELSE {}
      same == [threw |-> FALSE, message |-> "", remoteManifest |-> remoteManifest,
               localManifest |-> localMan, remoteManifestChanged |-> FALSE,
               localManifestChanged |-> FALSE, remoteObject |-> remoteObject,
               step |-> [NoStep EXCEPT !.reads = 1]]
  IN  IF ~readOk
      THEN [same EXCEPT !.threw = TRUE, !.message = "ENOENT",
                        !.step.message = "ENOENT",
                        !.step.result = "read-failed"]
      ELSE IF matchesLocalManifest(forceUploadSet, localEntry, hashSha256)
      THEN [same EXCEPT !.remoteManifest[translation] = localEntry,
                        !.remoteManifestChanged = entryDiffers(remoteEntry, localEntry),
                        !.step.result = "local-match"]
      ELSE IF matchesRemoteManifest(forceUploadSet, remoteEntry, hashSha256)
      THEN IF localEntry = NoEntry \/ localEntry.hash # hashSha256
           THEN [same EXCEPT !.localManifest[translation] = remoteEntry,
                             !.localManifestChanged = TRUE,
                             !.step.result = "remote-match"]
           ELSE [same EXCEPT !.step.result = "remote-match"]
      ELSE IF probed /\ ~metadata.threw /\ metadata.exists
                /\ metadata.etag # <<>> /\ metadata.etag = hashMd5 /\ sizeMatches
      THEN [same EXCEPT !.remoteManifest[translation] = entry,
                        !.localManifest[translation] = entry,
                        !.remoteManifestChanged = entryDiffers(remoteEntry, entry),
                        !.localManifestChanged = entryDiffers(localEntry, entry),
                        !.step.probes = 1,
                        !.step.result = "probe-match"]
      ELSE IF put.threw
      THEN [same EXCEPT !.threw = TRUE, !.message = put.message,
                        !.step.message = put.message,
                        !.step.probes = IF probed THEN 1 ELSE 0,
                        !.step.uploads = 1,
                        !.step.warned = inspectWarning,
                        !.step.result = "upload-failed"]
      ELSE [same EXCEPT !.remoteManifest[translation] = entry,
                        !.localManifest[translation] = entry,
                        !.remoteManifestChanged = TRUE,
                        !.localManifestChanged = entryDiffers(localEntry, entry),
                        !.remoteObject = put.remoteObject,
                        !.step.probes = IF probed THEN 1 ELSE 0,
                        !.step.uploads = 1,
                        !.step.warned = inspectWarning,
                        !.step.result = "uploaded"]

\* syncTranslationsWithBlob up to its loop: the token test, the two manifest
\* reads and readdir.  Without a token, when the remote manifest cannot be read
\* (the call throws) and when readdir fails the run ends here.
StartRun ==
  /\ syncPc = "idle"
  /\ runs < MaxRuns
  /\ \E force \in BOOLEAN, answer \in {"ok", "manifest-error", "readdir-error"} :
       /\ forceUpload' = force
       /\ runLog' = [t \in SyncCodes |-> NoStep]
       /\ manifestWrites' = [remote |-> 0, local |-> 0]
       /\ manifestDirty' = FALSE
       /\ localManifestDirty' = FALSE
       /\ quotaExceeded' = FALSE
       /\ index' = 1
       /\ IF ~blobToken \/ answer = "manifest-error"
          THEN /\ manifest' = EmptyManifest
               /\ localManifest' = EmptyManifest
               /\ syncPc' = "idle"
               /\ runs' = runs + 1
          ELSE /\ manifest' = remoteManifestFile
               /\ localManifest' = localManifestFile
               /\ syncPc' = IF answer = "readdir-error" THEN "idle" ELSE "loop"
               /\ runs' = IF answer = "readdir-error" THEN runs + 1 ELSE runs
  /\ UNCHANGED << environment, web, engine, calls, ranking, syncWorld >>

\* One iteration of the loop over entries.
SyncStep ==
  /\ syncPc = "loop"
  /\ index <= Len(entries)
  /\ ~quotaExceeded
  /\ index' = index + 1
  /\ LET translation == entries[index]
     IN  IF sourceFiles[translation] = NoFile
         THEN /\ runLog' = [runLog EXCEPT ![translation].result = "no-file"]
              /\ UNCHANGED << remoteObjects, manifest, localManifest, manifestDirty,
                              localManifestDirty, quotaExceeded >>
         ELSE \E readOk \in BOOLEAN, probeAnswer \in ProbeAnswers,
                 putAnswer \in PutAnswers :
                LET done == syncTranslationFileToBlob(
                              translation, sourceFiles[translation], manifest,
                              localManifest, forceUpload, remoteObjects[translation],
                              readOk, probeAnswer, putAnswer)
                    quota == done.threw /\ isQuotaExceededError(done.message)
                    warnings ==
                      done.step.warned
                        \cup (IF done.threw THEN {"failed-to-upload"} ELSE {})
                        \cup (IF quota THEN {"quota-exceeded"} ELSE {})
                IN  /\ manifest' = done.remoteManifest
                    /\ localManifest' = done.localManifest
                    /\ remoteObjects' =
                         [remoteObjects EXCEPT ![translation] = done.remoteObject]
                    /\ manifestDirty' = (manifestDirty \/ done.remoteManifestChanged)
                    /\ localManifestDirty' =
                         (localManifestDirty \/ done.localManifestChanged)
                    /\ quotaExceeded' = quota
                    /\ runLog' = [runLog EXCEPT ![translation] =
                                    [done.step EXCEPT !.warned = warnings]]
  /\ UNCHANGED << environment, web, engine, calls, ranking, sourceFiles,
                  remoteManifestFile, localManifestFile, syncPc, forceUpload,
                  manifestWrites, runs >>

\* After the loop: if (manifestDirty) the manifest is put to the remote store.
WriteRemoteManifest ==
  /\ syncPc = "loop"
  /\ index > Len(entries) \/ quotaExceeded
  /\ syncPc' = "writeLocal"
  /\ IF manifestDirty
     THEN /\ manifestWrites' = [manifestWrites EXCEPT !.remote = @ + 1]
          /\ \E putOk \in BOOLEAN :
               remoteManifestFile' = IF putOk THEN manifest ELSE remoteManifestFile
     ELSE UNCHANGED << manifestWrites, remoteManifestFile >>
  /\ UNCHANGED << environment, web, engine, calls, ranking, sourceFiles, remoteObjects,
                  localManifestFile, index, manifest, localManifest, manifestDirty,
                  localManifestDirty, quotaExceeded, forceUpload, runLog, runs >>

\* Then: if (localManifestDirty) the local manifest file is written.
WriteLocalManifest ==
  /\ syncPc = "writeLocal"
  /\ syncPc' = "idle"
  /\ runs' = runs + 1
  /\ IF localManifestDirty
     THEN /\ manifestWrites' = [manifestWrites EXCEPT !.local = @ + 1]
          /\ \E writeOk \in BOOLEAN :
               localManifestFile' = IF writeOk THEN localManifest ELSE localManifestFile
     ELSE UNCHANGED << manifestWrites, localManifestFile >>
  /\ UNCHANGED << environment, web, engine, calls, ranking, sourceFiles, remoteObjects,
                  remoteManifestFile, index, manifest, localManifest, manifestDirty,
                  localManifestDirty, quotaExceeded, forceUpload, runLog >>

\* Between two runs a translation file is edited.
EditSource ==
  /\ syncPc = "idle"
  /\ runs < MaxRuns
  /\ \E t \in SyncCodes, content \in Contents :
       /\ sourceFiles[t] # content
       /\ sourceFiles' = [sourceFiles EXCEPT ![t] = content]
  /\ UNCHANGED << environment, web, engine, calls, ranking, remoteObjects,
                  remoteManifestFile, localManifestFile, syncRun >>

\* Before the first run: nothing is stored remotely and there is no manifest.
InitSync ==
  /\ sourceFiles \in [SyncCodes -> Contents \cup {NoFile}]
  /\ remoteObjects = [t \in SyncCodes |-> NoFile]
  /\ remoteManifestFile = EmptyManifest
  /\ localManifestFile = EmptyManifest
  /\ syncPc = "idle"
  /\ index = 1
  /\ manifest = EmptyManifest
  /\ localManifest = EmptyManifest
  /\ manifestDirty = FALSE
  /\ localManifestDirty = FALSE
  /\ quotaExceeded = FALSE
  /\ forceUpload = FALSE
  /\ runLog = [t \in SyncCodes |-> NoStep]
  /\ manifestWrites = [remote |-> 0, local |-> 0]
  /\ runs = 0

\* The search engine's state with no sync under way.
NoSync ==
  /\ sourceFiles = [t \in SyncCodes |-> 1]
  /\ remoteObjects = [t \in SyncCodes |-> NoFile]
  /\ remoteManifestFile = EmptyManifest
  /\ localManifestFile = EmptyManifest
  /\ syncPc = "idle"
  /\ index = 1
  /\ manifest = EmptyManifest
  /\ localManifest = EmptyManifest
  /\ manifestDirty = FALSE
  /\ localManifestDirty = FALSE
  /\ quotaExceeded = FALSE
  /\ forceUpload = FALSE
  /\ runLog = [t \in SyncCodes |-> NoStep]
  /\ manifestWrites = [remote |-> 0, local |-> 0]
  /\ runs = 0

\* ------------------------------------------- web endpoint (app/api/search)

\* What headers.get and searchParams.get return for a name that is not there.
Null == <<"null">>

RECURSIVE DigitsValue(_, _)
DigitsValue(s, acc) ==
  IF s = <<>> THEN acc ELSE DigitsValue(Tail(s), acc * 10 + DigitValue(Head(s)))

\* Number(value) of a string: surrounding whitespace is dropped, the empty
\* string is 0, then a sign and either Infinity or decimal digits with at most
\* one point; anything else is NaN.  A value with a fraction is counted as a
\* half more than its integer part, which leaves Number.isFinite,
\* Number.isInteger and the comparison with 0 as they are.  The strings of the
\* model have no exponent and no radix prefix.
Number(value) ==
  LET t == trim(value)
      signed == t # <<>> /\ Head(t) \in {"+", "-"}
      negative == t # <<>> /\ Head(t) = "-"
      body == IF signed THEN Tail(t) ELSE t
      points == {i \in 1..Len(body) : body[i] = "."}
      point == IF points = {} THEN Len(body) + 1 ELSE CHOOSE i \in points : TRUE
      whole == SubSeq(body, 1, point - 1)
      fraction == SubSeq(body, point + 1, Len(body))
      AllDigits(s) == \A i \in 1..Len(s) : DigitValue(s[i]) >= 0
      AllZeros(s) == \A i \in 1..Len(s) : s[i] = "0"
      halves == 2 * DigitsValue(whole, 0) + (IF AllZeros(fraction) THEN 0 ELSE 1)
  IN  IF t = <<>> THEN Whole(0)
      ELSE IF body = <<"I", "n", "f", "i", "n", "i", "t", "y">>
      THEN (IF negative THEN NegInf ELSE PosInf)
      ELSE IF Cardinality(points) <= 1 /\ AllDigits(whole) /\ AllDigits(fraction)
                /\ Len(whole) + Len(fraction) > 0
      THEN Half(IF negative THEN 0 - halves ELSE halves)
      ELSE NaN

\* parseNumberParam: [error, value]; error is "" when it returns a number or null.
parseNumberParam(value) ==
  IF value = Null THEN [error |-> "", value |-> NoNumber]
  ELSE IF ~isFinite(Number(value))
  THEN [error |-> "must be a finite number", value |-> NoNumber]
  ELSE IF Number(value).v % 2 # 0
  THEN [error |-> "must be an integer", value |-> NoNumber]
  ELSE IF Number(value).v < 0
  THEN [error |-> "cannot be negative", value |-> NoNumber]
  ELSE [error |-> "", value |-> Number(value)]

NoRequest ==
  [key |-> Null, term |-> Null, q |-> Null, limit |-> Null, maxResults |-> Null,
   translation |-> Null, none |-> TRUE]

NoResponse == [status |-> 0, error |-> "", term |-> <<>>, results |-> <<>>]

ErrorResponse(status, error) == [NoResponse EXCEPT !.status = status, !.error = error]

\* A key test that lets a request without the header pass.
isUnauthorizedUnlessMissing(providedKey, apiKey) ==
  providedKey \notin {Null, <<>>} /\ providedKey # apiKey

\* !providedKey || providedKey !== API_KEY
isUnauthorized(providedKey, apiKey) ==
  providedKey \in {Null, <<>>} \/ providedKey # apiKey

\* (searchParams.get("term") ?? searchParams.get("q") ?? "").trim()
termOf(r) ==
  trim(IF r.term # Null THEN r.term ELSE IF r.q # Null THEN r.q ELSE <<>>)

\* The arguments GET passes to searchBible.
searchArgumentsOf(r) ==
  [term |-> termOf(r),
   limit |-> parseNumberParam(r.limit).value,
   maxResults |-> parseNumberParam(r.maxResults).value,
   translation |-> IF r.translation = Null THEN Undefined ELSE r.translation]

\* The checks of GET before it calls searchBible: the response of the check
\* that fails first, NoResponse when all pass.
rejection(apiKey, r) ==
  IF apiKey \in {Undefined, <<>>}
  THEN ErrorResponse(500, "Server misconfiguration: missing API key")
  ELSE IF isUnauthorized(r.key, apiKey)
  THEN ErrorResponse(401, "Unauthorized")
  ELSE IF termOf(r) = <<>>
  THEN ErrorResponse(400, "Missing search term")
  ELSE IF parseNumberParam(r.limit).error # ""
  THEN ErrorResponse(400, parseNumberParam(r.limit).error)
  ELSE IF parseNumberParam(r.maxResults).error # ""
  THEN ErrorResponse(400, parseNumberParam(r.maxResults).error)
  ELSE NoResponse

\* GET up to its await: the checks, then the call of searchBible.
Get(r) ==
  /\ request = NoRequest
  /\ response = NoResponse
  /\ pc[1] = "idle"
  /\ request' = r
  /\ UNCHANGED API_KEY
  /\ IF rejection(API_KEY, r) # NoResponse
     THEN /\ response' = rejection(API_KEY, r)
          /\ UNCHANGED << environment, engine, calls, ranking, sync >>
     ELSE /\ response' = NoResponse
          /\ Search(1, searchArgumentsOf(r))

\* GET after its await: the results, or 500 when searchBible threw.
Respond ==
  /\ request # NoRequest
  /\ response = NoResponse
  /\ response' =
       IF outcome[1].kind = "returned"
       THEN [status |-> 200, error |-> "", term |-> termOf(request),
             results |-> outcome[1].results]
       ELSE ErrorResponse(500, "Unable to complete Bible search.")
  /\ Return(1)
  /\ UNCHANGED << API_KEY, request >>

\* The client has the response; the next request can come.
Close ==
  /\ response # NoResponse
  /\ request' = NoRequest
  /\ response' = NoResponse
  /\ UNCHANGED << API_KEY, environment, engine, calls, ranking, sync >>

\* No request at the endpoint.
NoWeb ==
  /\ API_KEY = Undefined
  /\ request = NoRequest
  /\ response = NoResponse

\* ---------------------------------------------------------- specifications

\* The search terms, limits and translation arguments of the model.
Terms ==
  { <<>>, <<" ", " ">>, <<"!">>, <<"a">>, <<"B", " ", " ", "a">> }

LimitArguments ==
  { <<NoNumber, NoNumber>>, <<Whole(0), NoNumber>>, <<Whole(1), NoNumber>>,
    <<Whole(2), NoNumber>>, <<Half(3), NoNumber>>, <<Half(-1), NoNumber>>,
    <<Whole(100), NoNumber>>, <<PosInf, NoNumber>>, <<NaN, NoNumber>>,
    <<NoNumber, Whole(2)>>, <<Whole(1), Whole(2)>>, <<Whole(0), Whole(2)>> }

TranslationArguments ==
  { Undefined, NLT, <<"n", "l", "t">>, KJV, <<"k", "j", "v">>,
    <<" ", "K", "j", "v">>, ESV, <<"e", "s", "v">> }

SearchArguments ==
  { [term |-> t, limit |-> l[1], maxResults |-> l[2], translation |-> tr] :
      t \in Terms, l \in LimitArguments, tr \in TranslationArguments }

InitEngine(stores) ==
  /\ store \in stores
  /\ blobToken \in BOOLEAN
  /\ corpusPromise = [state |-> "unset", corpus |-> NoCorpus, error |-> ""]
  /\ translationCache = [t \in TranslationCodes |-> AbsentEntry]
  /\ databaseReads = 0
  /\ remoteRequests = 0
  /\ fileReads = 0
  /\ pc = [p \in Callers |-> "idle"]
  /\ args = [p \in Callers |-> NoArgs]
  /\ local = [p \in Callers |-> NoLocal]
  /\ outcome = [p \in Callers |-> NoOutcome]
  /\ NoSync

Init ==
  /\ InitEngine(Stores)
  /\ rankInput = NoRankInput
  /\ rankOutput = NoRankOutput
  /\ NoEmbed
  /\ NoWeb

\* One caller at a time, every argument of the model.
Next ==
  \/ \E a \in SearchArguments : Search(1, a) /\ UNCHANGED web
  \/ SettleCorpus
  \/ ResumeWithCorpus(1)
  \/ \E t \in TranslationCodes : SettleFetch(t)
  \/ \E t \in TranslationCodes : SettleRead(t)
  \/ ResumeWithTranslation(1)
  \/ Return(1) /\ UNCHANGED web

Spec == Init /\ [][Next]_vars

\* Two callers whose calls interleave, on fewer arguments.
ConcurrentArguments ==
  { [term |-> <<"a">>, limit |-> Whole(2), maxResults |-> NoNumber, translation |-> tr] :
      tr \in { Undefined, NLT, <<"n", "l", "t">>, KJV, <<"k", "j", "v">> } }

InitConcurrent ==
  /\ InitEngine({"nlt", "kjv", "missing"})
  /\ rankInput = NoRankInput
  /\ rankOutput = NoRankOutput
  /\ NoEmbed
  /\ NoWeb

NextConcurrent ==
  \/ \E p \in Callers : \E a \in ConcurrentArguments : Search(p, a) /\ UNCHANGED web
  \/ SettleCorpus
  \/ \E p \in Callers : ResumeWithCorpus(p)
  \/ \E t \in TranslationCodes : SettleFetch(t)
  \/ \E t \in TranslationCodes : SettleRead(t)
  \/ \E p \in Callers : ResumeWithTranslation(p)
  \/ \E p \in Callers : Return(p) /\ UNCHANGED web

SpecConcurrent == InitConcurrent /\ [][NextConcurrent]_vars

\* The ranker on its own: selectTopMatches applied to a corpus, a query vector
\* and a limit.
RankEmbeddings ==
  { <<Fin(0), Fin(0)>>, <<Fin(Scale), Fin(0)>>, <<Fin(0), Fin(Scale)>>,
    <<Fin(70), Fin(70)>>, <<Fin(0 - Scale), Fin(0)>>, <<PosInf, Fin(0)>>,
    <<NegInf, Fin(Scale)>>, <<Fin(Scale)>> }

RankQueries == { <<Fin(Scale), Fin(0)>>, <<Fin(0), Fin(Scale)>>, <<Fin(70), Fin(70)>> }

RankCorpora ==
  UNION { { [i \in 1..n |->
               [book |-> "Psalms", chapter |-> 1, verse |-> i, text |-> <<>>,
                embedding |-> e[i]]] : e \in [1..n -> RankEmbeddings] } :
          n \in 0..MaxVerses }

InitRank ==
  /\ store = "missing"
  /\ blobToken = FALSE
  /\ corpusPromise = [state |-> "unset", corpus |-> NoCorpus, error |-> ""]
  /\ translationCache = [t \in TranslationCodes |-> AbsentEntry]
  /\ databaseReads = 0
  /\ remoteRequests = 0
  /\ fileReads = 0
  /\ pc = [p \in Callers |-> "idle"]
  /\ args = [p \in Callers |-> NoArgs]
  /\ local = [p \in Callers |-> NoLocal]
  /\ outcome = [p \in Callers |-> NoOutcome]
  /\ NoSync
  /\ NoWeb
  /\ rankInput \in [verses : RankCorpora, queryVector : RankQueries,
                    limit : 0..MaxVerses]
  /\ rankOutput = NoRankOutput
  /\ NoEmbed

Rank ==
  /\ ~rankOutput.called
  /\ LET selected == selectTopMatches(rankInput.verses, rankInput.queryVector,
                                      rankInput.limit)
     IN  rankOutput' = [called |-> TRUE, threw |-> selected.threw,
                        matches |-> selected.matches]
  /\ UNCHANGED << environment, web, engine, calls, rankInput, embedInput,
                  embedOutput, sync >>

NextRank == Rank

SpecRank == InitRank /\ [][NextRank]_vars

\* The vectorizers on their own: vectorize of the ingest script and
\* vectorizeTokens of the search engine applied to a text and a dimension.
MaxTextLength == 3
MaxDimension == 4

Texts == UNION { [1..n -> {"a", "B", " ", "!"}] : n \in 0..MaxTextLength }

InitEmbed ==
  /\ InitEngine({"missing"})
  /\ blobToken = FALSE
  /\ rankInput = NoRankInput
  /\ rankOutput = NoRankOutput
  /\ NoWeb
  /\ embedInput \in [text : Texts, dimension : 1..MaxDimension]
  /\ embedOutput = NoEmbedOutput

Embed ==
  /\ ~embedOutput.called
  /\ embedOutput' =
       [called |-> TRUE,
        stored |-> vectorize(embedInput.text, embedInput.dimension),
        query |-> vectorizeTokens(tokenize(normalizeText(embedInput.text)),
                                  embedInput.dimension)]
  /\ UNCHANGED << environment, web, engine, calls, rankInput, rankOutput,
                  embedInput, sync >>

NextEmbed == Embed

SpecEmbed == InitEmbed /\ [][NextEmbed]_vars

\* The sync runs of the ingest script, one after the other, with edits of the
\* translation files between them.
InitSyncRuns ==
  /\ store = "nlt"
  /\ blobToken \in BOOLEAN
  /\ corpusPromise = [state |-> "unset", corpus |-> NoCorpus, error |-> ""]
  /\ translationCache = [t \in TranslationCodes |-> AbsentEntry]
  /\ databaseReads = 0
  /\ remoteRequests = 0
  /\ fileReads = 0
  /\ pc = [p \in Callers |-> "idle"]
  /\ args = [p \in Callers |-> NoArgs]
  /\ local = [p \in Callers |-> NoLocal]
  /\ outcome = [p \in Callers |-> NoOutcome]
  /\ rankInput = NoRankInput
  /\ rankOutput = NoRankOutput
  /\ NoEmbed
  /\ InitSync
  /\ NoWeb

NextSync ==
  \/ StartRun
  \/ SyncStep
  \/ WriteRemoteManifest
  \/ WriteLocalManifest
  \/ EditSource

SpecSync == InitSyncRuns /\ [][NextSync]_vars

\* The two programs that talk to the remote store, each in a process of its
\* own: a behaviour is either the server answering searches or the ingest
\* script syncing, with the token set or not.
ServerRuns == syncPc = "idle" /\ runs = 0
IngestRuns == corpusPromise.state = "unset" /\ \A p \in Callers : pc[p] = "idle"

NextRemote ==
  \/ ServerRuns /\ \E a \in ConcurrentArguments : Search(1, a) /\ UNCHANGED web
  \/ ServerRuns /\ SettleCorpus
  \/ ServerRuns /\ ResumeWithCorpus(1)
  \/ ServerRuns /\ \E t \in TranslationCodes : SettleFetch(t)
  \/ ServerRuns /\ \E t \in TranslationCodes : SettleRead(t)
  \/ ServerRuns /\ ResumeWithTranslation(1)
  \/ ServerRuns /\ Return(1) /\ UNCHANGED web
  \/ IngestRuns /\ StartRun
  \/ IngestRuns /\ SyncStep
  \/ IngestRuns /\ WriteRemoteManifest
  \/ IngestRuns /\ WriteLocalManifest
  \/ IngestRuns /\ EditSource

SpecRemote == InitSyncRuns /\ [][NextRemote]_vars

\* The requests of the model at the endpoint, with the server's key set or not.
Requests ==
  { [key |-> k, term |-> t, q |-> q, limit |-> l, maxResults |-> m,
     translation |-> tr, none |-> FALSE] :
      k \in { Null, <<>>, <<"k">>, <<"x">> },
      t \in { Null, <<>>, <<" ">>, <<"a">> },
      q \in { Null, <<"b">> },
      l \in { Null, <<>>, <<"2">>, <<" ", "1">>, <<"1", ".", "5">>, <<"2", ".", "0">>,
              <<"-", "1">>, <<"a">>, <<"I", "n", "f", "i", "n", "i", "t", "y">> },
      m \in { Null, <<"1">>, <<"-", "2">>, <<"x">> },
      tr \in { Null, <<"k", "j", "v">> } }

InitRoute ==
  /\ InitEngine({"nlt", "missing"})
  /\ rankInput = NoRankInput
  /\ rankOutput = NoRankOutput
  /\ NoEmbed
  /\ API_KEY \in { Undefined, <<>>, <<"k">> }
  /\ request = NoRequest
  /\ response = NoResponse

NextRoute ==
  \/ \E r \in Requests : Get(r)
  \/ SettleCorpus
  \/ ResumeWithCorpus(1)
  \/ \E t \in TranslationCodes : SettleFetch(t)
  \/ \E t \in TranslationCodes : SettleRead(t)
  \/ ResumeWithTranslation(1)
  \/ Respond
  \/ Close

SpecRoute == InitRoute /\ [][NextRoute]_vars

\* ------------------------------------------------------------------ claims

Min(a, b) == IF a < b THEN a ELSE b

\* The ranker call of SpecRank.
RankScore(v) == dotProduct(rankInput.queryVector, v.embedding)
RankCompleted == rankOutput.called /\ ~rankOutput.threw
RankReturned == { rankOutput.matches[i].verse : i \in 1..Len(rankOutput.matches) }
RankNotReturned ==
  { rankInput.verses[i] : i \in 1..Len(rankInput.verses) } \ RankReturned
RankFiniteCount ==
  Cardinality({ i \in 1..Len(rankInput.verses) : isFinite(RankScore(rankInput.verses[i])) })

\* C1 as stated: for k >= 1 every returned passage has a score greater than or
\* equal to the score of every passage that was not returned (no passage that
\* was left out has a score above a returned one).
C1_AsStated ==
  (RankCompleted /\ rankInput.limit >= 1) =>
    \A i \in 1..Len(rankOutput.matches) : \A v \in RankNotReturned :
      ~FLess(rankOutput.matches[i].score, RankScore(v))

\* C1, amended: for k >= 1 every returned passage carries its own score, and
\* that score is greater than or equal to the score of every passage that was
\* not returned and whose score is finite.
C1_ReturnedBeatFiniteRest ==
  (RankCompleted /\ rankInput.limit >= 1) =>
    \A i \in 1..Len(rankOutput.matches) :
      /\ rankOutput.matches[i].score = RankScore(rankOutput.matches[i].verse)
      /\ \A v \in RankNotReturned :
           isFinite(RankScore(v)) => FLeq(RankScore(v), rankOutput.matches[i].score)

C1_Witness ==
  /\ RankCompleted
  /\ rankInput.limit >= 1
  /\ Len(rankOutput.matches) = rankInput.limit
  /\ \E v \in RankNotReturned :
       /\ isFinite(RankScore(v))
       /\ FLess(RankScore(v), rankOutput.matches[Len(rankOutput.matches)].score)

\* C2 as stated: when at least one passage has a finite score the ranker
\* returns no fewer than min(k, |corpus|) results.
C2_AsStated ==
  (RankCompleted /\ RankFiniteCount >= 1) =>
    Len(rankOutput.matches) >= Min(rankInput.limit, Len(rankInput.verses))

\* C2, amended: when at least one passage has a finite score the ranker
\* returns no fewer than min(k, number of passages with a finite score) results.
C2_AtLeastFiniteOrLimit ==
  (RankCompleted /\ RankFiniteCount >= 1) =>
    Len(rankOutput.matches) >= Min(rankInput.limit, RankFiniteCount)

C2_Witness ==
  /\ RankCompleted
  /\ RankFiniteCount >= 1
  /\ RankFiniteCount < Len(rankInput.verses)
  /\ rankInput.limit > RankFiniteCount
  /\ Len(rankOutput.matches) = RankFiniteCount

\* The searchBible calls.
Done(p) == pc[p] = "done"
RawLimit(p) == rawLimitOf(args[p].limit, args[p].maxResults)
ValidLimit(raw) == raw.k = "fin" /\ raw.v >= 0
LimitErrors == {"limit-not-finite", "limit-negative"}
IsBlank(term) == \A i \in 1..Len(term) : term[i] \in {" ", "\t", "\n"}

\* The translation the call asks for, in normal form.
Requested(p) ==
  IF args[p].translation = Undefined THEN <<"N", "L", "T">>
  ELSE toUpperCase(trim(args[p].translation))

\* The call started no corpus load.
NoCorpusLoad(p) == corpusPromise.state = local[p].corpusBefore

\* The call caused no translation-document I/O and no cache entry.
NoTranslationIO(p) ==
  /\ remoteRequests = local[p].remoteBefore
  /\ fileReads = local[p].fileBefore
  /\ CacheStates = local[p].cacheBefore

\* r carries the text the loaded corpus holds for r's passage.
HasCorpusText(r) ==
  \E i \in 1..Len(corpusPromise.corpus.verses) :
    LET v == corpusPromise.corpus.verses[i]
    IN  v.book = r.book /\ v.chapter = r.chapter /\ v.verse = r.verse /\ v.text = r.text

\* r carries the text doc holds at book -> String(chapter) -> String(verse).
HasDocumentText(r, doc) ==
  /\ r.book \in DOMAIN doc
  /\ String(r.chapter) \in DOMAIN doc[r.book]
  /\ String(r.verse) \in DOMAIN doc[r.book][String(r.chapter)]
  /\ r.text = doc[r.book][String(r.chapter)][String(r.verse)]

\* C3: with a valid limit L the call does not fail on the limit, its result
\* list has at most min(floor(L), 50) entries, and floor(L) = 0 gives the
\* empty list.
C3_LimitClamped ==
  \A p \in Callers :
    (Done(p) /\ ValidLimit(RawLimit(p))) =>
      /\ outcome[p].error \notin LimitErrors
      /\ Len(outcome[p].results) <= Min(RawLimit(p).v \div 2, 50)
      /\ (RawLimit(p).v \div 2 = 0 => outcome[p] = Returned(<<>>))

C3_Witness ==
  /\ Done(1)
  /\ args[1].limit = Whole(100)
  /\ outcome[1].kind = "returned"
  /\ Len(outcome[1].results) = 50

\* C4: the matches of every selectTopMatches call and the result list of every
\* search are in non-increasing order of score.
C4_DescendingScores ==
  \A p \in Callers :
    /\ \A i \in 1..(Len(local[p].matches) - 1) :
         FLeq(local[p].matches[i + 1].score, local[p].matches[i].score)
    /\ \A i \in 1..(Len(outcome[p].results) - 1) :
         FLeq(outcome[p].results[i + 1].score, outcome[p].results[i].score)

C4_Witness ==
  /\ Done(1)
  /\ Len(outcome[1].results) = 3
  /\ FLess(outcome[1].results[2].score, outcome[1].results[1].score)
  /\ FLess(outcome[1].results[3].score, outcome[1].results[2].score)
  /\ outcome[1].results[1].book = "Romans"

\* C5: a call with an empty or whitespace-only term and a valid limit returns
\* the empty list and starts neither a corpus load nor a translation load.
C5_BlankTermEmpty ==
  \A p \in Callers :
    (Done(p) /\ IsBlank(args[p].term) /\ ValidLimit(RawLimit(p))) =>
      /\ outcome[p] = Returned(<<>>)
      /\ NoCorpusLoad(p)
      /\ NoTranslationIO(p)

C5_Witness ==
  /\ Done(1)
  /\ args[1].term = <<" ", " ">>
  /\ args[1].translation = KJV
  /\ args[1].limit = Whole(2)
  /\ corpusPromise.state = "unset"
  /\ outcome[1] = Returned(<<>>)

\* C6 as stated: every call whose raw limit is non-finite or negative is
\* rejected with a validation error, before any engine work, for every term.
C6_AsStated ==
  \A p \in Callers :
    (Done(p) /\ ~ValidLimit(RawLimit(p))) =>
      /\ outcome[p].kind = "threw"
      /\ outcome[p].error \in LimitErrors
      /\ NoCorpusLoad(p)
      /\ NoTranslationIO(p)

\* C7 as stated: with no translation given every result carries the code of
\* the store's metadata and the corpus's text, and no document is loaded.
C7_AsStated ==
  \A p \in Callers :
    (Done(p) /\ args[p].translation = Undefined /\ outcome[p].kind = "returned") =>
      /\ NoTranslationIO(p)
      /\ \A i \in 1..Len(outcome[p].results) :
           /\ outcome[p].results[i].translation = corpusPromise.corpus.translation
           /\ HasCorpusText(outcome[p].results[i])

\* C7, amended: with no translation given the call behaves as for NLT: every
\* result carries the code NLT; when NLT is the corpus's translation the text
\* is the corpus's and no document is loaded, otherwise the text is the NLT
\* document's.
C7_DefaultsToNLT ==
  \A p \in Callers :
    (Done(p) /\ args[p].translation = Undefined /\ outcome[p].kind = "returned") =>
      /\ (corpusPromise.state = "fulfilled"
            /\ corpusPromise.corpus.translation = <<"N", "L", "T">>)
           => NoTranslationIO(p)
      /\ \A i \in 1..Len(outcome[p].results) :
           /\ outcome[p].results[i].translation = <<"N", "L", "T">>
           /\ IF corpusPromise.corpus.translation = <<"N", "L", "T">>
              THEN HasCorpusText(outcome[p].results[i])
              ELSE HasDocumentText(outcome[p].results[i],
                                   translationCache[<<"N", "L", "T">>].doc)

C7_Witness ==
  /\ Done(1)
  /\ args[1].translation = Undefined
  /\ store = "nlt"
  /\ outcome[1].kind = "returned"
  /\ Len(outcome[1].results) = 2
  /\ NoTranslationIO(1)

\* C8: every result carries the upper-case form of the code the call asked
\* for, and two calls that differ only in the letter case of that code return
\* the same result list.
C8_CaseInsensitive ==
  /\ \A p \in Callers :
       (Done(p) /\ args[p].translation # Undefined) =>
         \A i \in 1..Len(outcome[p].results) :
           outcome[p].results[i].translation = toUpperCase(trim(args[p].translation))
  /\ \A p, q \in Callers :
       ( /\ Done(p) /\ Done(q)
         /\ outcome[p].kind = "returned" /\ outcome[q].kind = "returned"
         /\ args[p].translation # Undefined /\ args[q].translation # Undefined
         /\ args[p].term = args[q].term
         /\ args[p].limit = args[q].limit
         /\ args[p].maxResults = args[q].maxResults
         /\ toUpperCase(args[p].translation) = toUpperCase(args[q].translation) )
       => outcome[p].results = outcome[q].results

C8_Witness ==
  /\ Done(1) /\ Done(2)
  /\ args[1].translation = <<"k", "j", "v">>
  /\ args[2].translation = KJV
  /\ store = "nlt"
  /\ outcome[1].kind = "returned" /\ outcome[2].kind = "returned"
  /\ Len(outcome[1].results) = 2
  /\ outcome[1].results = outcome[2].results

\* C9: when the requested translation is the corpus's, the call causes no
\* translation-document I/O and creates no cache entry, and every result
\* carries the text the loaded corpus holds for that passage.
C9_PrimaryNeedsNoDocument ==
  \A p \in Callers :
    (Done(p) /\ corpusPromise.state = "fulfilled"
       /\ Requested(p) = corpusPromise.corpus.translation) =>
      /\ NoTranslationIO(p)
      /\ \A i \in 1..Len(outcome[p].results) :
           /\ HasCorpusText(outcome[p].results[i])
           /\ outcome[p].results[i].translation = corpusPromise.corpus.translation

C9_Witness ==
  /\ Done(1)
  /\ store = "kjv"
  /\ args[1].translation = <<"k", "j", "v">>
  /\ Len(outcome[1].results) = 2
  /\ remoteRequests = 0
  /\ fileReads = 0
  /\ CacheStates = [t \in TranslationCodes |-> "absent"]

\* C10: when the requested translation T is not the corpus's and the call
\* returns, every result carries the code T and the text that T's loaded
\* document holds at book -> String(chapter) -> String(verse).
C10_TranslatedText ==
  \A p \in Callers :
    (Done(p) /\ outcome[p].kind = "returned" /\ corpusPromise.state = "fulfilled"
       /\ Requested(p) # corpusPromise.corpus.translation) =>
      \A i \in 1..Len(outcome[p].results) :
        /\ outcome[p].results[i].translation = Requested(p)
        /\ translationCache[Requested(p)].state = "fulfilled"
        /\ translationCache[Requested(p)].doc
             \in {RemoteObject(Requested(p)).doc, LocalFile(Requested(p)).doc}
        /\ HasDocumentText(outcome[p].results[i], translationCache[Requested(p)].doc)

C10_Witness ==
  /\ Done(1)
  /\ store = "nlt"
  /\ Requested(1) = KJV
  /\ outcome[1].kind = "returned"
  /\ Len(outcome[1].results) = 3
  /\ outcome[1].results[1].text = <<"K", "3">>

\* The errors of lookupTranslationText and those of a document load.
PassageErrors == {"book-not-available", "chapter-not-available", "verse-not-available"}
LoadErrors ==
  {"blob-unreachable", "blob-status", "blob-invalid-json", "file-unreadable",
   "file-invalid-json"}

\* The call took the translated branch and its document is loaded.
TranslatedCall(p) ==
  /\ corpusPromise.state = "fulfilled"
  /\ local[p].matches # <<>>
  /\ Requested(p) # corpusPromise.corpus.translation
  /\ translationCache[Requested(p)].state = "fulfilled"

\* The matches of the call that have no entry in doc.
MissingEntries(p, doc) ==
  { i \in 1..Len(local[p].matches) :
      \/ local[p].matches[i].verse.book \notin DOMAIN doc
      \/ String(local[p].matches[i].verse.chapter)
           \notin DOMAIN doc[local[p].matches[i].verse.book]
      \/ String(local[p].matches[i].verse.verse)
           \notin DOMAIN doc[local[p].matches[i].verse.book]
                             [String(local[p].matches[i].verse.chapter)] }

\* C11: when a matched passage has no entry (book, chapter or verse) in the
\* loaded document of the requested translation, the call throws a
\* passage-not-available error, which is none of the load errors, and returns
\* no result at all.
C11_MissingPassageFails ==
  \A p \in Callers :
    (Done(p) /\ TranslatedCall(p)
       /\ MissingEntries(p, translationCache[Requested(p)].doc) # {}) =>
      /\ outcome[p].kind = "threw"
      /\ outcome[p].error \in PassageErrors
      /\ outcome[p].error \notin LoadErrors
      /\ outcome[p].results = <<>>

\* The first match has its text in the document, the second has no verse entry.
C11_Witness ==
  /\ Done(1)
  /\ TranslatedCall(1)
  /\ Requested(1) = ESV
  /\ MissingEntries(1, translationCache[ESV].doc) = {2}
  /\ outcome[1] = Thrown("verse-not-available")

C11_WitnessBook ==
  /\ Done(1) /\ TranslatedCall(1) /\ outcome[1] = Thrown("book-not-available")

C11_WitnessChapter ==
  /\ Done(1) /\ TranslatedCall(1) /\ outcome[1] = Thrown("chapter-not-available")

\* The number of document loads (remote requests and file reads) so far.
LoadIO == remoteRequests + fileReads

\* The code whose document the call awaits.
Awaited(p) == toUpperCase(local[p].requestedTranslation)

\* C12: a failed load leaves no entry in the cache; a call receives a load
\* error only in the step in which the in-flight load it awaits fails, never
\* from an entry an earlier failure left; and a call that finds no entry for
\* its translation starts a new load with new I/O.
C12_FailedLoadNotCached ==
  [][ /\ \A t \in TranslationCodes :
           /\ translationCache'[t].state # "rejected"
           /\ (translationCache[t].state \in {"fetching", "reading"}
                 /\ translationCache'[t].state \notin {"fetching", "reading", "fulfilled"})
                => translationCache'[t] = AbsentEntry
      /\ \A p \in Callers :
           (outcome'[p].error \in LoadErrors /\ outcome[p].error \notin LoadErrors) =>
             /\ pc[p] = "awaitTranslation"
             /\ translationCache[Awaited(p)].state \in {"fetching", "reading"}
             /\ translationCache'[Awaited(p)].state = "absent"
      /\ \A p \in Callers :
           (pc[p] = "awaitCorpus" /\ pc'[p] = "awaitTranslation"
              /\ translationCache[Awaited(p)'].state = "absent") =>
             /\ LoadIO' = LoadIO + 1
             /\ translationCache'[Awaited(p)'].state \in {"fetching", "reading"} ]_vars

\* The load of KJV failed for caller 2; caller 1 then asked for KJV, started
\* the second load and got its results.
C12_Witness ==
  /\ Done(1) /\ Done(2)
  /\ Requested(1) = KJV /\ Requested(2) = KJV
  /\ outcome[2].kind = "threw" /\ outcome[2].error \in LoadErrors
  /\ local[1].remoteBefore + local[1].fileBefore = 1
  /\ LoadIO = 2
  /\ outcome[1].kind = "returned"
  /\ Len(outcome[1].results) = 2

\* C13: a call starts a document load (its step adds a remote request or a
\* file read) only when the cache holds no entry for its code; a call that
\* finds an entry, in flight or loaded, adds no I/O and leaves the entry as it
\* is; and a loaded entry never changes again.
C13_SingleFlight ==
  [][ /\ \A p \in Callers :
           (pc[p] = "awaitCorpus" /\ pc'[p] = "awaitTranslation") =>
             /\ LoadIO' # LoadIO => translationCache[Awaited(p)'].state = "absent"
             /\ translationCache[Awaited(p)'].state # "absent" =>
                  /\ LoadIO' = LoadIO
                  /\ translationCache' = translationCache
      /\ \A t \in TranslationCodes :
           /\ translationCache[t].state = "fulfilled" =>
                translationCache'[t] = translationCache[t]
           /\ (translationCache[t].state = "fetching"
                 /\ translationCache'[t].state = "fetching") =>
                remoteRequests' = remoteRequests ]_vars

\* Caller 2 asked for KJV while caller 1's load of it was in flight; both got
\* their results from one remote request.
C13_Witness ==
  /\ Done(1) /\ Done(2)
  /\ Requested(1) = KJV /\ Requested(2) = KJV
  /\ local[2].cacheBefore[KJV] = "fetching"
  /\ outcome[1].kind = "returned" /\ outcome[2].kind = "returned"
  /\ Len(outcome[2].results) = 2
  /\ LoadIO = 1

\* The verses of the loaded corpus.
CorpusVerses ==
  { [k \in {"book", "chapter", "verse", "text"} |-> corpusPromise.corpus.verses[i][k]] :
      i \in 1..Len(corpusPromise.corpus.verses) }

\* C14: the database file is read at most once; while a corpus load is in
\* flight no second one starts, a loaded corpus never changes and is never
\* read again, and the matches of every call are passages of that one corpus.
C14_CorpusLoadedOnce ==
  [][ /\ databaseReads' <= 1
      /\ corpusPromise.state = "pending" => corpusPromise'.state # "unset"
      /\ corpusPromise.state = "fulfilled" =>
           /\ corpusPromise' = corpusPromise
           /\ databaseReads' = databaseReads
      /\ \A p \in Callers :
           \A i \in 1..Len(local'[p].matches) :
             /\ corpusPromise'.state = "fulfilled"
             /\ [k \in {"book", "chapter", "verse", "text"} |->
                   local'[p].matches[i].verse[k]] \in CorpusVerses' ]_vars

\* Caller 1 started the corpus load, caller 2 arrived while it was in flight;
\* both ranked the corpus that one read produced.
C14_Witness ==
  /\ Done(1) /\ Done(2)
  /\ local[1].corpusBefore = "unset"
  /\ local[2].corpusBefore = "pending"
  /\ Len(local[1].matches) = 2 /\ Len(local[2].matches) = 2
  /\ outcome[1].kind = "returned" /\ outcome[2].kind = "returned"
  /\ databaseReads = 1

\* The errors of a corpus load.
CorpusErrors ==
  {"unable-to-load-sql-wasm", "unable-to-read-database", "invalid-dimension", "no-verses"}

\* C15 as stated: a failed corpus load is cleared, so no call receives the
\* failure of a load that had already failed when the call began; such a call
\* starts a new load.
C15_AsStated ==
  \A p \in Callers :
    (pc[p] # "idle" /\ local[p].corpusBefore = "rejected") =>
      /\ corpusPromise.state # "rejected"
      /\ outcome[p].error \notin CorpusErrors

\* d is the decimal numeral of a positive integer.
IsPositiveNumeral(d) ==
  /\ d # <<>>
  /\ \A i \in 1..Len(d) : d[i] \in {"0", "1", "2", "3", "4", "5", "6", "7", "8", "9"}
  /\ \E i \in 1..Len(d) : d[i] # "0"

\* The store has no row of the translation its metadata declares (NLT when the
\* metadata declares none).
HasNoDeclaredPassage(db) ==
  \A i \in 1..Len(db.rows) :
    db.rows[i].translation #
      (IF db.translation = NoValue THEN <<"N", "L", "T">> ELSE db.translation)

\* The store of the claim: missing, without a positive dimension, or without
\* a passage of the declared translation.
CorpusUnusable(db) ==
  \/ ~db.exists
  \/ db.dimension = NoValue
  \/ ~IsPositiveNumeral(db.dimension)
  \/ HasNoDeclaredPassage(db)

\* The call got past the term and limit checks and awaited the corpus.
ReachedCorpus(p) == Done(p) /\ local[p].clampedLimit > 0

C16_WitnessMissing ==
  /\ ReachedCorpus(1) /\ store = "missing"
  /\ outcome[1] = Thrown("unable-to-read-database")

C16_WitnessDimension ==
  /\ ReachedCorpus(1)
  /\ store \in {"no-dimension", "zero-dimension", "negative-dimension", "text-dimension"}
  /\ outcome[1] = Thrown("invalid-dimension")

\* The sync runs.

\* The entry records the content that is stored at the translation's remote
\* location.
DescribesRemoteObject(entry, object) ==
  /\ object # NoFile
  /\ entry.hash = createSha256(object)
  /\ entry.size = byteLength(object)

\* C17 as stated: whenever a sync step writes or changes the entry of a
\* translation in the remote manifest or in the local manifest, and whenever a
\* manifest write stores a new entry for it, the document the entry records is
\* the one stored at the translation's remote location.
C17_AsStated ==
  [][ \A t \in SyncCodes :
        /\ (syncPc = "loop" /\ manifest'[t] # manifest[t]) =>
             DescribesRemoteObject(manifest'[t], remoteObjects'[t])
        /\ (syncPc = "loop" /\ localManifest'[t] # localManifest[t]) =>
             DescribesRemoteObject(localManifest'[t], remoteObjects'[t])
        /\ remoteManifestFile'[t] # remoteManifestFile[t] =>
             DescribesRemoteObject(remoteManifestFile'[t], remoteObjects'[t])
        /\ localManifestFile'[t] # localManifestFile[t] =>
             DescribesRemoteObject(localManifestFile'[t], remoteObjects'[t]) ]_vars

\* The loop of the run is over and no manifest has been written yet: the two
\* manifest files are still what the run read at its start.
LoopOver == syncPc = "loop" /\ (index > Len(entries) \/ quotaExceeded)

\* The run read the translation's file.
FileRead(t) == runLog[t].result \notin {"none", "no-file", "read-failed"}

\* C18 as stated (forceUpload unset): with a local manifest entry of hash H, a
\* run makes no upload call for a file that still hashes to H; for a file whose
\* hash is no longer H it makes exactly one upload call and the manifest
\* entries of the translation become the new hash.
C18_AsStated ==
  \A t \in SyncCodes :
    (LoopOver /\ ~forceUpload /\ localManifestFile[t] # NoEntry /\ FileRead(t)) =>
      IF localManifestFile[t].hash = createSha256(sourceFiles[t])
      THEN runLog[t].uploads = 0
      ELSE /\ runLog[t].uploads = 1
           /\ manifest[t].hash = createSha256(sourceFiles[t])
           /\ localManifest[t].hash = createSha256(sourceFiles[t])

\* C18, amended (forceUpload unset): with a local manifest entry of hash H, a
\* run makes no probe and no upload call for a file that still hashes to H.
\* For a file whose hash is no longer H the run makes no upload call when the
\* remote manifest already records the new hash or the probe finds the new
\* content at the remote location, and exactly one upload call otherwise; the
\* entries of both manifests become the new hash unless that upload fails, and
\* then they stay as they were.
C18_UploadOnlyWhenChanged ==
  \A t \in SyncCodes :
    (LoopOver /\ ~forceUpload /\ localManifestFile[t] # NoEntry /\ FileRead(t)) =>
      IF localManifestFile[t].hash = createSha256(sourceFiles[t])
      THEN runLog[t].uploads = 0 /\ runLog[t].probes = 0
      ELSE /\ runLog[t].uploads =
                (IF remoteManifestFile[t].hash = createSha256(sourceFiles[t])
                      \/ runLog[t].result = "probe-match"
                 THEN 0 ELSE 1)
           /\ runLog[t].result = "probe-match" => remoteObjects[t] = sourceFiles[t]
           /\ IF runLog[t].result = "upload-failed"
              THEN /\ manifest[t] = remoteManifestFile[t]
                   /\ localManifest[t] = localManifestFile[t]
              ELSE /\ manifest[t].hash = createSha256(sourceFiles[t])
                   /\ localManifest[t].hash = createSha256(sourceFiles[t])

\* KJV has a local entry of the earlier content, the file was edited, and the
\* run uploaded it once and recorded the new hash in both manifests; NLT still
\* matches its local entry and was not uploaded.
C18_Witness ==
  /\ LoopOver /\ ~forceUpload
  /\ localManifestFile[KJV] = [hash |-> createSha256(1), size |-> byteLength(1)]
  /\ sourceFiles[KJV] = 2
  /\ runLog[KJV].result = "uploaded" /\ runLog[KJV].uploads = 1
  /\ manifest[KJV].hash = createSha256(2) /\ localManifest[KJV].hash = createSha256(2)
  /\ localManifestFile[NLT].hash = createSha256(sourceFiles[NLT])
  /\ runLog[NLT].result = "local-match" /\ runLog[NLT].uploads = 0

\* C19: with forceUpload set, every translation whose file the run reads gets
\* exactly one upload call and no probe, whatever the two manifests and the
\* remote object hold.
C19_ForceUploadAlwaysUploads ==
  \A t \in SyncCodes :
    (forceUpload /\ FileRead(t)) =>
      /\ runLog[t].uploads = 1
      /\ runLog[t].probes = 0
      /\ runLog[t].result \in {"uploaded", "upload-failed"}

\* Both manifests record the file's hash and the remote object has its
\* content, and the forced run uploaded it all the same.
C19_Witness ==
  /\ LoopOver /\ forceUpload
  /\ localManifestFile[KJV].hash = createSha256(sourceFiles[KJV])
  /\ remoteManifestFile[KJV].hash = createSha256(sourceFiles[KJV])
  /\ runLog[KJV].result = "uploaded"
  /\ runLog[KJV].uploads = 1
  /\ runLog[NLT].result = "uploaded"

\* The position of a translation in entries.
Position(t) == CHOOSE i \in 1..Len(entries) : entries[i] = t

\* C20: the quota warning is given for exactly the steps that fail with the
\* quota message of the remote store, next to the warning every failed step
\* gets; and once a step has failed so, the run does nothing for any later
\* translation: no read, no probe, no upload.
C20_QuotaAbortsRun ==
  \A t \in SyncCodes :
    /\ "quota-exceeded" \in runLog[t].warned <=>
         (runLog[t].result = "upload-failed"
            /\ runLog[t].message = "Storage quota exceeded")
    /\ runLog[t].result \in {"upload-failed", "read-failed"} <=>
         "failed-to-upload" \in runLog[t].warned
    /\ "quota-exceeded" \in runLog[t].warned =>
         \A u \in SyncCodes : Position(u) > Position(t) => runLog[u] = NoStep

\* The upload of KJV failed on quota; the run is over and did nothing for NLT,
\* whose file is there.
C20_Witness ==
  /\ syncPc = "writeLocal"
  /\ "quota-exceeded" \in runLog[KJV].warned
  /\ sourceFiles[NLT] # NoFile
  /\ runLog[NLT] = NoStep

\* An upload that fails for another reason gets no quota warning and the run
\* goes on.
C20_WitnessOtherFailure ==
  /\ syncPc = "writeLocal"
  /\ runLog[KJV].result = "upload-failed"
  /\ runLog[KJV].warned = {"failed-to-upload"}
  /\ runLog[NLT].result = "uploaded"

\* The step of the translation failed, and not with the quota message.
OtherFailure(t) ==
  /\ runLog[t].result \in {"read-failed", "upload-failed"}
  /\ runLog[t].message # "Storage quota exceeded"

\* C21: when the step of a translation fails with another error than the quota
\* message, the run warns without the quota warning, leaves the entries of the
\* translation in both manifests as the run read them, does not stop the loop,
\* and ends with a step taken for every later translation unless one between
\* them failed on quota.
C21_OtherFailureSkipsOne ==
  \A t \in SyncCodes :
    (syncPc \in {"loop", "writeLocal"} /\ OtherFailure(t)) =>
      /\ runLog[t].warned \in {{"failed-to-upload"},
                               {"failed-to-upload", "unable-to-inspect"}}
      /\ syncPc = "loop" =>
           /\ manifest[t] = remoteManifestFile[t]
           /\ localManifest[t] = localManifestFile[t]
      /\ (syncPc = "loop" /\ index = Position(t) + 1) => ~quotaExceeded
      /\ (LoopOver \/ syncPc = "writeLocal") =>
           \A u \in SyncCodes :
             Position(u) > Position(t) =>
               \/ runLog[u] # NoStep
               \/ \E w \in SyncCodes :
                    /\ Position(t) < Position(w) /\ Position(w) < Position(u)
                    /\ "quota-exceeded" \in runLog[w].warned

\* The file of KJV could not be read; the run went on, uploaded NLT and wrote
\* the remote manifest.
C21_Witness ==
  /\ syncPc = "writeLocal"
  /\ runLog[KJV].result = "read-failed"
  /\ runLog[KJV].warned = {"failed-to-upload"}
  /\ runLog[NLT].result = "uploaded"
  /\ manifestWrites.remote = 1

\* C22: the file of a manifest changes only in a write of that manifest.  A
\* run writes the remote manifest only when its loop is over (all entries
\* done, or stopped on quota), when it has not written it before, and when a
\* step of the run uploaded a document or left an entry of the manifest other
\* than the run read it; it writes the local manifest only after that point,
\* when it has not written it before, and when a step of the run left an entry
\* of the local manifest other than the run read it.  No step of the loop
\* writes a manifest file.
C22_ManifestsWrittenOnceAtEnd ==
  [][ /\ remoteManifestFile' # remoteManifestFile =>
           manifestWrites'.remote = manifestWrites.remote + 1
      /\ localManifestFile' # localManifestFile =>
           manifestWrites'.local = manifestWrites.local + 1
      /\ manifestWrites'.remote > manifestWrites.remote =>
           /\ LoopOver
           /\ manifestWrites = [remote |-> 0, local |-> 0]
           /\ \E t \in SyncCodes :
                \/ runLog[t].result = "uploaded"
                \/ manifest[t] # remoteManifestFile[t]
      /\ manifestWrites'.local > manifestWrites.local =>
           /\ syncPc = "writeLocal"
           /\ manifestWrites.local = 0
           /\ \E t \in SyncCodes : localManifest[t] # localManifestFile[t]
      /\ (syncPc = "loop" /\ syncPc' = "loop") =>
           /\ manifestWrites' = [remote |-> 0, local |-> 0]
           /\ remoteManifestFile' = remoteManifestFile
           /\ localManifestFile' = localManifestFile ]_vars

\* A run took a step for both translations, then wrote each manifest once,
\* and both files hold what the steps recorded.
C22_Witness ==
  /\ syncPc = "idle" /\ runs = 1
  /\ manifestWrites = [remote |-> 1, local |-> 1]
  /\ runLog[KJV].result = "uploaded" /\ runLog[NLT].result = "uploaded"
  /\ remoteManifestFile = manifest /\ localManifestFile = localManifest
  /\ remoteManifestFile[KJV] # NoEntry /\ remoteManifestFile[NLT] # NoEntry

\* The web endpoint.

\* This step is GET taking up a request.
Arrives == request = NoRequest /\ request' # NoRequest

\* The server's key is not configured: API_KEY is undefined or empty.
NotConfigured == API_KEY \in {Undefined, <<>>}

\* C23: a request that arrives while the server's key is not configured is
\* answered 500 at once, and a request that arrives with the key configured
\* and with no x-api-key header, or with one that is not the configured key,
\* is answered 401 at once; in both cases the step starts no searchBible call
\* and leaves the engine's corpus promise, caches and read counters as they are.
C23_KeyCheckedBeforeSearch ==
  [][ Arrives =>
        /\ NotConfigured =>
             /\ response'.status = 500
             /\ UNCHANGED << engine, calls >>
        /\ (~NotConfigured /\ (request'.key = Null \/ request'.key # API_KEY)) =>
             /\ response'.status = 401
             /\ UNCHANGED << engine, calls >> ]_vars

\* A request with a term and a wrong key was answered 401 and no search began.
C23_Witness ==
  /\ API_KEY = <<"k">>
  /\ request.key = <<"x">> /\ request.term = <<"a">> /\ request.limit = Null
  /\ response.status = 401
  /\ pc[1] = "idle" /\ corpusPromise.state = "unset"

\* A request with the right key for a server without one was answered 500.
C23_WitnessNotConfigured ==
  /\ API_KEY = Undefined
  /\ request.key = <<"k">> /\ request.term = <<"a">>
  /\ response.status = 500
  /\ pc[1] = "idle" /\ corpusPromise.state = "unset"

\* A request without the header was answered 401.
C23_WitnessMissingHeader ==
  /\ API_KEY = <<"k">>
  /\ request.key = Null /\ request.term = <<"a">>
  /\ response.status = 401
  /\ pc[1] = "idle"

\* The request carries the configured key.
Authenticated(r) == ~NotConfigured /\ r.key = API_KEY

\* The term parameter of the request, the q parameter when there is none, is
\* missing or blank.
TermMissingOrBlank(r) ==
  IF r.term # Null THEN IsBlank(r.term) ELSE (r.q = Null \/ IsBlank(r.q))

\* The parameter's value is a finite, non-negative integer.
IsCount(value) ==
  /\ ~IsBlank(value)
  /\ isFinite(Number(value))
  /\ Number(value).v % 2 = 0
  /\ Number(value).v >= 0

\* A limit or maxResults parameter is supplied and is no such integer.
BadCount(r) ==
  \/ r.limit # Null /\ ~IsCount(r.limit)
  \/ r.maxResults # Null /\ ~IsCount(r.maxResults)

\* C24 as stated: an authenticated request whose term is missing or blank, or
\* whose supplied limit or maxResults is not a finite, non-negative integer,
\* is answered 400 at once and starts no searchBible call; every other
\* authenticated request starts one.
C24_AsStated ==
  [][ (Arrives /\ Authenticated(request')) =>
        IF TermMissingOrBlank(request') \/ BadCount(request')
        THEN /\ response'.status = 400
             /\ UNCHANGED << engine, calls >>
        ELSE /\ response' = NoResponse
             /\ pc'[1] # "idle"
             /\ args'[1].term = termOf(request') ]_vars

\* The limit the caller asks for: limit when given, else maxResults when given,
\* else 5.
AskedLimit(p) ==
  IF args[p].limit # NoNumber THEN args[p].limit
  ELSE IF args[p].maxResults # NoNumber THEN args[p].maxResults
  ELSE Whole(5)

\* C25: a call with a term that is not blank is governed by limit when it is
\* given, otherwise by maxResults when it is given, otherwise by 5, whatever
\* maxResults is next to a given limit: the call fails on the limit exactly
\* when that number is not valid, returns the empty list when its floor is 0,
\* and otherwise ranks with min(floor, 50) as its limit and returns at most so
\* many results.
C25_LimitBeforeMaxResults ==
  \A p \in Callers :
    (pc[p] # "idle" /\ normalizeText(args[p].term) # <<>>) =>
      IF ~ValidLimit(AskedLimit(p))
      THEN Done(p) /\ outcome[p].error \in LimitErrors
      ELSE IF AskedLimit(p).v \div 2 = 0
      THEN Done(p) /\ outcome[p] = Returned(<<>>)
      ELSE /\ local[p].clampedLimit = Min(AskedLimit(p).v \div 2, 50)
           /\ outcome[p].error \notin LimitErrors
           /\ Len(local[p].matches) <= local[p].clampedLimit
           /\ Len(outcome[p].results) <= local[p].clampedLimit

\* With limit 1 and maxResults 2 the call returned one result of a corpus of
\* three verses.
C25_Witness ==
  /\ Done(1)
  /\ store = "nlt"
  /\ args[1].limit = Whole(1) /\ args[1].maxResults = Whole(2)
  /\ outcome[1].kind = "returned"
  /\ Len(outcome[1].results) = 1

\* With maxResults 2 alone it returned two.
C25_WitnessMaxResults ==
  /\ Done(1)
  /\ store = "nlt"
  /\ args[1].limit = NoNumber /\ args[1].maxResults = Whole(2)
  /\ outcome[1].kind = "returned"
  /\ Len(outcome[1].results) = 2

\* With neither it returned five verses of the large corpus.
C25_WitnessDefault ==
  /\ Done(1)
  /\ store = "large"
  /\ args[1].limit = NoNumber /\ args[1].maxResults = NoNumber
  /\ outcome[1].kind = "returned"
  /\ Len(outcome[1].results) = 5

\* The vectorizers.

\* The text has a letter, a digit or an apostrophe: it yields a token.
YieldsTokens(text) == \E i \in 1..Len(text) : text[i] \in {"a", "B", "'"}

\* The square of the vector's Euclidean norm, in units of 1/Scale^2.
NormSquared(vector) == SumSquares([i \in 1..Len(vector) |-> vector[i].v])

\* The vector's norm is 1.0 to the precision of the representation: within one
\* unit of 1/Scale for each component that is not zero.
HasUnitNorm(vector) ==
  LET slack == Cardinality({i \in 1..Len(vector) : vector[i] # Fin(0)})
  IN  /\ slack > 0
      /\ (Scale - slack) * (Scale - slack) <= NormSquared(vector)
      /\ NormSquared(vector) <= (Scale + slack) * (Scale + slack)

\* The vector is what the claim allows for the text and the dimension.
IsEmbedding(vector, text, dimension) ==
  /\ Len(vector) = dimension
  /\ \A i \in 1..Len(vector) : isFinite(vector[i])
  /\ IF YieldsTokens(text)
     THEN ~isZeroVector(vector) /\ HasUnitNorm(vector)
     ELSE isZeroVector(vector)

C26_WitnessZero ==
  /\ embedOutput.called
  /\ embedInput.text = <<"!", " ", "!">>
  /\ embedInput.dimension = MaxDimension
  /\ isZeroVector(embedOutput.stored)
  /\ Len(embedOutput.stored) = MaxDimension

\* A token twice: the count 2 in one bucket becomes 1.0.
C26_WitnessRepeated ==
  /\ embedOutput.called
  /\ embedInput.text = <<"a", " ", "a">>
  /\ \E i \in 1..Len(embedOutput.stored) : embedOutput.stored[i] = Fin(Scale)

\* The ranker's ties.

\* The returned passages at i and j, i before j, have the same score.
RankTie(i, j) ==
  /\ i \in 1..Len(rankOutput.matches) /\ j \in 1..Len(rankOutput.matches)
  /\ i < j
  /\ rankOutput.matches[i].score = rankOutput.matches[j].score

\* C27 as stated: of two returned passages with the same score, the one that
\* comes earlier in the scan of the corpus comes earlier in the result list.
\* (The verse number of a passage of SpecRank is its place in the scan.)
C27_AsStated ==
  RankCompleted =>
    \A i, j \in 1..Len(rankOutput.matches) :
      RankTie(i, j) =>
        rankOutput.matches[i].verse.verse < rankOutput.matches[j].verse.verse

\* C27, amended: when no more passages have a finite score than the limit
\* allows, so that the scan replaces no entry of its working set, two returned
\* passages with the same score are in scan order.
C27_TiesInScanOrderWithoutReplacement ==
  (RankCompleted /\ RankFiniteCount <= rankInput.limit) =>
    \A i, j \in 1..Len(rankOutput.matches) :
      RankTie(i, j) =>
        rankOutput.matches[i].verse.verse < rankOutput.matches[j].verse.verse

\* Three passages, the second and third with the same score and the first
\* with a higher one, all three returned: the tie is in scan order.
C27_Witness ==
  /\ RankCompleted
  /\ rankInput.limit = 3
  /\ Len(rankOutput.matches) = 3
  /\ RankTie(2, 3)
  /\ FLess(rankOutput.matches[2].score, rankOutput.matches[1].score)
  /\ rankOutput.matches[2].verse.verse = 2
  /\ rankOutput.matches[3].verse.verse = 3

\* The rows of the corpus.

\* C28 as stated: a corpus load that succeeds has accepted no row whose
\* embedding is not of the declared dimension (a blob of 4 bytes for each of
\* its dimension numbers); a store with such a row makes the load fail, and no
\* search fails on the length of a vector during ranking.
C28_AsStated ==
  /\ corpusPromise.state = "fulfilled" =>
       \A i \in 1..Len(corpusPromise.corpus.verses) :
         Len(corpusPromise.corpus.verses[i].embedding) = corpusPromise.corpus.dimension
  /\ \A p \in Callers : outcome[p].error # "vectors-differ-in-length"

\* The probe of the remote object.

\* C29 as stated: when the probe of a translation's remote object fails, the
\* run warns, makes no upload call for the translation and leaves its entries
\* in both manifests as they were; the later translations get their step.
C29_AsStated ==
  \A t \in SyncCodes :
    (syncPc = "loop" /\ "unable-to-inspect" \in runLog[t].warned) =>
      /\ runLog[t].uploads = 0
      /\ manifest[t] = remoteManifestFile[t]
      /\ localManifest[t] = localManifestFile[t]
      /\ LoopOver =>
           \A u \in SyncCodes : Position(u) > Position(t) => runLog[u] # NoStep

\* This step is the loop's step for translation t, and it made the probe.
ProbeStep(t) ==
  /\ syncPc = "loop" /\ index <= Len(entries) /\ entries[index] = t
  /\ index' = index + 1
  /\ runLog'[t].probes = 1

\* The manifest entry the sync writes for a content.
EntryOf(content) == [hash |-> createSha256(content), size |-> byteLength(content)]

\* C30: a step whose file was read, with forceUpload unset and the file's hash
\* in neither manifest, makes the probe.  A step that made the probe adopts
\* (sets both entries of the translation to the file's hash and size, makes no
\* upload call and leaves the remote object alone) only if the remote object
\* exists and has the content of the local file, so that its checksum is the
\* file's and its byte size is the file's; a step that made the probe and does
\* not adopt makes one upload call.
C30_AdoptOnlyOnMatch ==
  [][ \A t \in SyncCodes :
        /\ ( /\ syncPc = "loop" /\ index <= Len(entries) /\ entries[index] = t
             /\ index' = index + 1
             /\ ~forceUpload
             /\ runLog'[t].result \notin {"no-file", "read-failed"}
             /\ manifest[t].hash # createSha256(sourceFiles[t])
             /\ localManifest[t].hash # createSha256(sourceFiles[t]) )
             => runLog'[t].probes = 1
        /\ ProbeStep(t) =>
             IF runLog'[t].result = "probe-match"
             THEN /\ remoteObjects[t] # NoFile
                  /\ remoteObjects[t] = sourceFiles[t]
                  /\ createMd5(remoteObjects[t]) = createMd5(sourceFiles[t])
                  /\ byteLength(remoteObjects[t]) = byteLength(sourceFiles[t])
                  /\ runLog'[t].uploads = 0
                  /\ remoteObjects' = remoteObjects
                  /\ manifest'[t] = EntryOf(sourceFiles[t])
                  /\ localManifest'[t] = EntryOf(sourceFiles[t])
             ELSE /\ runLog'[t].uploads = 1
                  /\ runLog'[t].result \in {"uploaded", "upload-failed"} ]_vars

\* A second run after both manifests were lost (the remote manifest write and
\* the local one failed): the probe found the uploaded KJV document and the
\* run adopted it without an upload.
C30_Witness ==
  /\ syncPc = "loop"
  /\ runs = 1
  /\ ~forceUpload
  /\ remoteManifestFile[KJV] = NoEntry /\ localManifestFile[KJV] = NoEntry
  /\ runLog[KJV].result = "probe-match"
  /\ runLog[KJV].probes = 1 /\ runLog[KJV].uploads = 0
  /\ remoteObjects[KJV] = sourceFiles[KJV]
  /\ manifest[KJV] = EntryOf(sourceFiles[KJV])
  /\ localManifest[KJV] = EntryOf(sourceFiles[KJV])

\* The probe found a document of another content and the run uploaded.
C30_WitnessDiffers ==
  /\ syncPc = "loop"
  /\ ~forceUpload
  /\ runLog[KJV].probes = 1 /\ runLog[KJV].uploads = 1
  /\ runLog[KJV].warned = {}
  /\ runs >= 1
  /\ remoteManifestFile[KJV] # NoEntry
  /\ remoteManifestFile[KJV].hash # createSha256(sourceFiles[KJV])

\* The branches of the sync step.

\* This step is the loop's step for translation t, and it read the file.
StepOf(t) ==
  /\ syncPc = "loop" /\ index <= Len(entries) /\ entries[index] = t
  /\ index' = index + 1
  /\ runLog'[t].result \notin {"no-file", "read-failed"}

\* C31: a step with forceUpload unset whose local manifest entry has the hash
\* of the source file makes no probe and no upload call, leaves the remote
\* object and the local manifest as they are and does not mark the local
\* manifest; the remote entry becomes the local entry, and the step marks the
\* remote manifest exactly when the remote entry was absent or differed from
\* the local entry in hash or size.
C31_LocalMatchPatchesRemoteOnly ==
  [][ \A t \in SyncCodes :
        (StepOf(t) /\ ~forceUpload
           /\ localManifest[t].hash = createSha256(sourceFiles[t])) =>
          /\ runLog'[t].probes = 0
          /\ runLog'[t].uploads = 0
          /\ remoteObjects' = remoteObjects
          /\ localManifest' = localManifest
          /\ localManifestDirty' = localManifestDirty
          /\ manifest' = [manifest EXCEPT ![t] = localManifest[t]]
          /\ manifestDirty' =
               (manifestDirty
                  \/ manifest[t] = NoEntry
                  \/ manifest[t].hash # localManifest[t].hash
                  \/ manifest[t].size # localManifest[t].size) ]_vars

\* The remote manifest had lost the entry of KJV; the step found the file's
\* hash in the local manifest, patched the remote entry and marked the remote
\* manifest, without a probe or an upload.
C31_Witness ==
  /\ syncPc = "loop"
  /\ ~forceUpload
  /\ runLog[KJV].result = "local-match"
  /\ runLog[KJV].probes = 0 /\ runLog[KJV].uploads = 0
  /\ remoteManifestFile[KJV] = NoEntry
  /\ localManifestFile[KJV].hash = createSha256(sourceFiles[KJV])
  /\ manifest[KJV] = localManifestFile[KJV]
  /\ manifestDirty /\ ~localManifestDirty

\* Both manifests agreed: the step marked neither.
C31_WitnessAgree ==
  /\ syncPc = "loop"
  /\ ~forceUpload
  /\ index = 2
  /\ runLog[KJV].result = "local-match"
  /\ remoteManifestFile[KJV] = localManifestFile[KJV]
  /\ ~manifestDirty /\ ~localManifestDirty

\* C32: a step with forceUpload unset whose local manifest entry does not have
\* the hash of the source file, while the remote manifest entry has it, makes
\* no probe and no upload call, leaves the remote object and the remote
\* manifest as they are and does not mark the remote manifest; the local entry
\* becomes the remote entry and the local manifest is marked.
C32_RemoteMatchAdoptsLocally ==
  [][ \A t \in SyncCodes :
        (StepOf(t) /\ ~forceUpload
           /\ localManifest[t].hash # createSha256(sourceFiles[t])
           /\ manifest[t].hash = createSha256(sourceFiles[t])) =>
          /\ runLog'[t].probes = 0
          /\ runLog'[t].uploads = 0
          /\ remoteObjects' = remoteObjects
          /\ manifest' = manifest
          /\ manifestDirty' = manifestDirty
          /\ localManifest' = [localManifest EXCEPT ![t] = manifest[t]]
          /\ localManifestDirty' ]_vars

\* The local manifest file had no entry of KJV (its write had failed); the
\* step found the file's hash in the remote manifest and copied the entry.
C32_Witness ==
  /\ syncPc = "loop"
  /\ ~forceUpload
  /\ index = 2
  /\ runLog[KJV].result = "remote-match"
  /\ runLog[KJV].probes = 0 /\ runLog[KJV].uploads = 0
  /\ localManifestFile[KJV] = NoEntry
  /\ remoteManifestFile[KJV].hash = createSha256(sourceFiles[KJV])
  /\ localManifest[KJV] = remoteManifestFile[KJV]
  /\ manifest = remoteManifestFile
  /\ localManifestDirty /\ ~manifestDirty

\* C33: when the upload of a translation's document fails (the step made its
\* upload call and ends as failed, or ends with the remote object not holding
\* the file), the step changes no entry of either manifest and marks neither.
C33_FailedUploadRecordsNothing ==
  [][ \A t \in SyncCodes :
        (StepOf(t) /\ runLog'[t].uploads = 1
           /\ (runLog'[t].result = "upload-failed"
                 \/ remoteObjects'[t] # sourceFiles[t])) =>
          /\ manifest' = manifest
          /\ localManifest' = localManifest
          /\ manifestDirty' = manifestDirty
          /\ localManifestDirty' = localManifestDirty
          /\ remoteObjects' = remoteObjects
          /\ "failed-to-upload" \in runLog'[t].warned ]_vars

\* The upload of KJV failed in a first run: no entry and no mark.
C33_Witness ==
  /\ syncPc = "loop"
  /\ index = 2
  /\ runs = 0
  /\ runLog[KJV].result = "upload-failed"
  /\ runLog[KJV].uploads = 1
  /\ runLog[KJV].message = "Internal Server Error"
  /\ manifest[KJV] = NoEntry /\ localManifest[KJV] = NoEntry
  /\ remoteObjects[KJV] = NoFile
  /\ ~manifestDirty /\ ~localManifestDirty

\* The upload of an edited KJV failed in a later run: both entries keep the
\* hash of the earlier content.
C33_WitnessEdited ==
  /\ syncPc = "loop"
  /\ runs >= 1
  /\ runLog[KJV].result = "upload-failed"
  /\ sourceFiles[KJV] = 2
  /\ manifest[KJV] = EntryOf(1) /\ localManifest[KJV] = EntryOf(1)
  /\ ~manifestDirty /\ ~localManifestDirty

\* C34: no step of a search, successful or failed, changes the corpus store, the
\* remote objects, either manifest file or the source files, and once the corpus
\* is loaded no step changes its records or their order.
C34_SearchWritesNothing ==
  [][ /\ store' = store
      /\ syncWorld' = syncWorld
      /\ syncRun' = syncRun
      /\ corpusPromise.state = "fulfilled" => corpusPromise' = corpusPromise ]_vars

\* A search over the loaded corpus returned ranked results.
C34_Witness ==
  /\ Done(1)
  /\ outcome[1].kind = "returned"
  /\ Len(outcome[1].results) = 2
  /\ corpusPromise.state = "fulfilled"
  /\ local[1].corpusBefore = "fulfilled"
  /\ corpusPromise.corpus = loadCorpusBody(Database(store), "none").corpus

\* A search over the loaded corpus failed on a translation.
C34_WitnessFailed ==
  /\ Done(1)
  /\ outcome[1].kind = "threw"
  /\ corpusPromise.state = "fulfilled"
  /\ local[1].corpusBefore = "fulfilled"
  /\ local[1].matches # <<>>

\* The step in which the resolver starts reading the local copy of t after the
\* remote store answered.
FallsBack(t) ==
  /\ translationCache[t].state = "fetching"
  /\ translationCache'[t].state = "reading"
  /\ fileReads' = fileReads + 1

\* C35 as stated: with a token configured, every read of a local copy follows a
\* 404 of the remote store for that document.
C35_AsStated ==
  [][ (blobToken /\ fileReads' # fileReads) =>
        \E t \in TranslationCodes :
          FallsBack(t) /\ RemoteObject(t).status = "not-found" ]_vars

\* With a token configured, a load that the remote store failed (unreachable,
\* error status, payload that is not JSON) reads no local copy.
C35_FailuresReadNothing ==
  [][ \A t \in TranslationCodes :
        (blobToken /\ translationCache[t].state = "fetching"
           /\ translationCache'[t].state = "absent") =>
          fileReads' = fileReads ]_vars

\* A step in which a request goes to the remote store: the GET of a document by
\* the resolver, the GET of the manifest that lets a run enter its loop, a probe,
\* an upload, or the PUT of the manifest.
RequestSent ==
  \/ remoteRequests' # remoteRequests
  \/ \E t \in TranslationCodes : translationCache'[t].state = "fetching"
                                   /\ translationCache[t].state # "fetching"
  \/ syncPc = "idle" /\ syncPc' = "loop"
  \/ \E t \in SyncCodes : runLog'[t].probes > runLog[t].probes
  \/ \E t \in SyncCodes : runLog'[t].uploads > runLog[t].uploads
  \/ remoteObjects' # remoteObjects
  \/ remoteManifestFile' # remoteManifestFile
  \/ manifestWrites'.remote > manifestWrites.remote

\* C36: a request goes to the remote store only with the token configured (the
\* token every request is built with); without it a cache miss of the resolver
\* starts the file read at once and a sync run ends where it began.
C36_NoRequestWithoutCredential ==
  [][ /\ RequestSent => blobToken
      /\ ~blobToken =>
           /\ \A t \in TranslationCodes :
                (translationCache[t].state = "absent"
                   /\ translationCache'[t].state # "absent") =>
                  translationCache'[t].state = "reading" /\ fileReads' = fileReads + 1
           /\ syncPc' = "idle"
           /\ \A t \in SyncCodes : runLog'[t] = NoStep
           /\ syncWorld' # syncWorld => sourceFiles' # sourceFiles ]_vars

\* Without a token a search in KJV was answered from the local file alone.
C36_Witness ==
  /\ ~blobToken
  /\ Done(1)
  /\ outcome[1].kind = "returned"
  /\ Len(outcome[1].results) = 2
  /\ outcome[1].results[1].translation = KJV
  /\ remoteRequests = 0
  /\ fileReads = 1

\* Without a token a sync run over files that were never uploaded ended with
\* nothing sent.
C36_WitnessSyncSkipped ==
  /\ ~blobToken
  /\ runs = 1
  /\ syncPc = "idle"
  /\ sourceFiles[KJV] # NoFile
  /\ remoteObjects[KJV] = NoFile
  /\ remoteManifestFile = EmptyManifest

\* With the token, requests were sent by the resolver and by the sync.
C36_WitnessResolverRequest ==
  blobToken /\ remoteRequests = 1 /\ translationCache[KJV].state = "fetching"

C36_WitnessSyncRequest ==
  blobToken /\ remoteObjects[KJV] # NoFile /\ manifestWrites.remote = 1

\* The passages of a result list with their scores, in the order of the list.
Passages(results) ==
  [i \in 1..Len(results) |->
     <<results[i].book, results[i].chapter, results[i].verse, results[i].score>>]

\* Two completed calls that were given the same term and the same limits.
SameQuestion(p, q) ==
  /\ Done(p) /\ Done(q)
  /\ args[p].term = args[q].term
  /\ args[p].limit = args[q].limit
  /\ args[p].maxResults = args[q].maxResults

\* C37: two searches over the same corpus with the same term and limit that both
\* succeed list the same passages with the same scores in the same order,
\* whatever translation each of them asked for.
C37_PassagesIndependentOfTranslation ==
  \A p, q \in Callers :
    (SameQuestion(p, q) /\ outcome[p].kind = "returned" /\ outcome[q].kind = "returned") =>
      Passages(outcome[p].results) = Passages(outcome[q].results)

\* One call asked for the corpus's translation and the other for KJV: the same
\* two passages with other texts.
C37_Witness ==
  /\ SameQuestion(1, 2)
  /\ outcome[1].kind = "returned" /\ outcome[2].kind = "returned"
  /\ Len(outcome[1].results) = 2
  /\ outcome[1].results[1].translation = NLT
  /\ outcome[2].results[1].translation = KJV
  /\ outcome[1].results[1].text # outcome[2].results[1].text
  /\ Passages(outcome[1].results)[1] # Passages(outcome[1].results)[2]

\* The step that ends a run which went through its loop.
RunEnds == syncPc = "writeLocal" /\ syncPc' = "idle"

\* The run whose log the state holds succeeded in every step: each file was
\* read and is recorded or uploaded, and a manifest marked as changed is in its
\* file as the run has it.
Succeeded ==
  /\ \A t \in SyncCodes :
       runLog[t].result \in {"no-file", "local-match", "remote-match", "probe-match",
                             "uploaded"}
  /\ manifestDirty => remoteManifestFile = manifest
  /\ localManifestDirty => localManifestFile = localManifest

\* Both manifest files record every source file as it is.
Synced ==
  \A t \in SyncCodes :
    sourceFiles[t] # NoFile =>
      /\ localManifestFile[t].hash = createSha256(sourceFiles[t])
      /\ remoteManifestFile[t] = localManifestFile[t]

\* A run without forceUpload that has so far sent no probe and no upload, marked
\* no manifest and written none, over manifests that record every source file.
Quiet ==
  /\ syncPc \in {"loop", "writeLocal"}
  /\ ~forceUpload
  /\ Synced
  /\ manifest = remoteManifestFile /\ localManifest = localManifestFile
  /\ ~manifestDirty /\ ~localManifestDirty /\ ~quotaExceeded
  /\ \A t \in SyncCodes : runLog[t].uploads = 0 /\ runLog[t].probes = 0
  /\ manifestWrites = [remote |-> 0, local |-> 0]

\* C38: a run that succeeded in every step leaves both manifest files recording
\* every source file; a run without forceUpload that starts from such files is
\* quiet when it enters its loop, and a quiet run stays quiet until it ends
\* with the remote objects and both manifest files as they were.  (The source
\* files change only between runs.)
C38_SyncIdempotent ==
  [][ /\ (RunEnds /\ Succeeded') => Synced'
      /\ (syncPc = "idle" /\ syncPc' = "loop" /\ Synced /\ ~forceUpload') => Quiet'
      /\ Quiet => /\ remoteObjects' = remoteObjects
                  /\ remoteManifestFile' = remoteManifestFile
                  /\ localManifestFile' = localManifestFile
                  /\ manifestWrites' = manifestWrites
                  /\ \A t \in SyncCodes : runLog'[t].uploads = 0
                  /\ Quiet' \/ syncPc' = "idle" ]_vars

\* The second run after a first that uploaded both documents and wrote both
\* manifests: two local matches, nothing uploaded, nothing written.
C38_Witness ==
  /\ runs = 2
  /\ syncPc = "idle"
  /\ ~forceUpload
  /\ Synced
  /\ \A t \in SyncCodes : sourceFiles[t] # NoFile /\ remoteObjects[t] = sourceFiles[t]
  /\ \A t \in SyncCodes : runLog[t].result = "local-match" /\ runLog[t].uploads = 0
  /\ manifestWrites = [remote |-> 0, local |-> 0]

\* C39: for every text and dimension the vector ingest stores for the text is
\* the vector the search path computes from the tokens of the same text, bucket
\* by bucket, and so is the vector of a query with that text (which the search
\* normalizes before it tokenizes).
C39_SameVectorizer ==
  embedOutput.called =>
    /\ embedOutput.stored =
         vectorizeTokens(tokenize(embedInput.text), embedInput.dimension)
    /\ embedOutput.stored = embedOutput.query
    /\ Len(embedOutput.stored) = embedInput.dimension

\* A text of two words with a capital, punctuation and two buckets in use: the
\* stored vector and the query vector are the same and not zero.
C39_Witness ==
  /\ embedOutput.called
  /\ embedInput.text = <<"B", "!", "a">>
  /\ embedInput.dimension = MaxDimension
  /\ ~isZeroVector(embedOutput.stored)
  /\ Cardinality({i \in 1..Len(embedOutput.stored) :
                    embedOutput.stored[i] # Fin(0)}) = 2
  /\ embedOutput.query = embedOutput.stored

====
